---- MODULE Spec2Model ----
(***************************************************************************)
(* Hybrid retrieval (vector + BM25, weighted or RRF fusion) over the      *)
(* RabbitMQ-backed vector store gateway.                                   *)
(*                                                                         *)
(* Numbers.  Python floats are modelled by scaled integers:                *)
(*   - BM25 scores, vector distances and similarities: units of 1/Scale;   *)
(*   - vector_weight: hundredths (70 is 0.7);                              *)
(*   - weighted combined scores: units of 1/(100*Scale);                   *)
(*   - RRF combined scores: exact rationals, kept as numerators over the   *)
(*     common denominator RrfDen of the call;                              *)
(*   - the synthesized result distance: units of 1/DistScale.              *)
(***************************************************************************)
EXTENDS Integers, Sequences, FiniteSets, TLC

\* ------------------------------------------------------------------ bounds
MaxTopK == 2
MaxVector == 2
MaxCalls == 2
\* The clock is read in steps of TickSeconds seconds.
TickSeconds == 10

Scale == 100 * 100
DistScale == 10 * 100
LnTerms == 4 * 4

\* ------------------------------------------------------- sequence helpers
Max2(a, b) == IF a >= b THEN a ELSE b
Min2(a, b) == IF a <= b THEN a ELSE b

Range(s) == {s[i] : i \in 1..Len(s)}

RECURSIVE Rep(_, _)
Rep(x, n) == IF n = 0 THEN <<>> ELSE <<x>> \o Rep(x, n - 1)

RECURSIVE SumSeq(_)
SumSeq(s) == IF s = <<>> THEN 0 ELSE Head(s) + SumSeq(Tail(s))

RECURSIVE SetMax(_)
SetMax(S) == LET x == CHOOSE y \in S : TRUE
             IN IF S = {x} THEN x ELSE Max2(x, SetMax(S \ {x}))

RECURSIVE SetMin(_)
SetMin(S) == LET x == CHOOSE y \in S : TRUE
             IN IF S = {x} THEN x ELSE Min2(x, SetMin(S \ {x}))

RECURSIVE Gcd(_, _)
Gcd(a, b) == IF b = 0 THEN a ELSE Gcd(b, a % b)

RECURSIVE SetLcm(_)
SetLcm(S) == IF S = {} THEN 1
             ELSE LET x == CHOOSE y \in S : TRUE
                      r == SetLcm(S \ {x})
                  IN (x \div Gcd(x, r)) * r

\* Position of the first occurrence of x in s (0 when absent).
RECURSIVE IndexOf(_, _, _)
IndexOf(s, x, i) == IF i > Len(s) THEN 0
                    ELSE IF s[i] = x THEN i ELSE IndexOf(s, x, i + 1)

\* s without repeated elements, first occurrences kept in order: the key
\* order of a Python dict filled by iterating s.
RECURSIVE Dedup(_)
Dedup(s) == IF s = <<>> THEN <<>>
            ELSE LET d == Dedup(SubSeq(s, 1, Len(s) - 1))
                     x == s[Len(s)]
                 IN IF x \in Range(d) THEN d ELSE Append(d, x)

\* sorted(s, key=..., reverse=True): a stable sort, descending by key;
\* elements with equal keys keep their order in s.
RECURSIVE InsertDesc(_, _, _)
InsertDesc(sorted, x, key) ==
    IF sorted = <<>> THEN <<x>>
    ELSE IF key[x] > key[Head(sorted)] THEN <<x>> \o sorted
    ELSE <<Head(sorted)>> \o InsertDesc(Tail(sorted), x, key)

RECURSIVE SortedDesc(_, _)
SortedDesc(s, key) ==
    IF s = <<>> THEN <<>>
    ELSE InsertDesc(SortedDesc(SubSeq(s, 1, Len(s) - 1), key), s[Len(s)], key)

Prefix(s, n) == SubSeq(s, 1, Min2(n, Len(s)))

\* ------------------------------------------------------------ text, tokens
\* A text is a sequence of items: words (possibly capitalised) and
\* punctuation.  re.findall(r'\b\w+\b', text.lower()) lower-cases the text
\* and keeps the runs of word characters, dropping everything else.
Punctuation == {",", ".", "-"}

Lower(item) ==
    CASE item = "Power" -> "power"
      [] item = "Grid" -> "grid"
      [] item = "The" -> "the"
      [] OTHER -> item

RECURSIVE _tokenize(_)
_tokenize(text) ==
    IF text = <<>> THEN <<>>
    ELSE IF Head(text) \in Punctuation THEN _tokenize(Tail(text))
    ELSE <<Lower(Head(text))>> \o _tokenize(Tail(text))

\* The members of the stop word list that the modelled vocabulary contains.
stop_words == {"a", "an", "the", "and", "or", "of", "to", "in"}

RECURSIVE RemoveStopWords(_)
RemoveStopWords(tokens) ==
    IF tokens = <<>> THEN <<>>
    ELSE IF Head(tokens) \in stop_words THEN RemoveStopWords(Tail(tokens))
    ELSE <<Head(tokens)>> \o RemoveStopWords(Tail(tokens))

\* The query tokens without stop words, with no fallback.
QueryTermsWithoutFallback(query) == RemoveStopWords(_tokenize(query))

\* query_terms: the query tokens without stop words, or all the query
\* tokens when nothing is left.
QueryTerms(query) ==
    LET filtered == RemoveStopWords(_tokenize(query))
    IN IF filtered = <<>> THEN _tokenize(query) ELSE filtered

\* --------------------------------------------------------------- BM25
\* Scale * ln(a / b) for integers a > b > 0, by
\*   ln(a/b) = 2 * (z + z^3/3 + z^5/5 + ...),  z = (a - b) / (a + b).
RECURSIVE LnSeries(_, _, _, _)
LnSeries(zs, pow, j, left) ==
    IF left = 0 \/ pow = 0 THEN 0
    ELSE (pow \div j) + LnSeries(zs, (((pow * zs) \div Scale) * zs) \div Scale, j + 2, left - 1)

LnScaled(a, b) ==
    LET zs == ((a - b) * Scale) \div (a + b)
    IN 2 * LnSeries(zs, zs, 1, LnTerms)

\* idf = max(0, np.log((N - df + 0.5) / (df + 0.5))), in units of 1/Scale.
\* (N - df + 0.5) / (df + 0.5) = (2(N - df) + 1) / (2 df + 1).
Idf(N, df) ==
    LET a == 2 * (N - df) + 1
        b == 2 * df + 1
    IN IF a > b THEN LnScaled(a, b) ELSE 0

TermCount(term, tokens) == Cardinality({i \in 1..Len(tokens) : tokens[i] = term})

DocFreqOf(term, doc_tokens) ==
    Cardinality({i \in 1..Len(doc_tokens) : term \in Range(doc_tokens[i])})

TotalLen(doc_tokens) == SumSeq([i \in 1..Len(doc_tokens) |-> Len(doc_tokens[i])])

\* The term score computed for every query term the corpus was counted
\* for, in the document or not.
ContributesWithoutMembership(term, tokens, doc_tokens) ==
    DocFreqOf(term, doc_tokens) >= 0

\* A query term contributes to a document's score when
\*   term in term_freq and term in doc_freq and doc_freq[term] > 0.
Contributes(term, tokens, doc_tokens) ==
    term \in Range(tokens) /\ DocFreqOf(term, doc_tokens) > 0

\* A term score whose numerator lacks the factor tf: idf * (k1 + 1) / denominator.
Bm25TermWithoutTf(idf, tf, doc_len, total, n_token_lists) ==
    (idf * 20 * total) \div (8 * tf * total + 3 * total + 9 * doc_len * n_token_lists)

\* idf * tf * (k1 + 1) / (tf + k1 * (1 - b + b * doc_len / avg_doc_len))
\* with k1 = 1.5, b = 0.75, avg_doc_len = total / n_tokens_lists.
\* Multiplying numerator and denominator by 8 * total:
\*   idf * 20 tf total / (8 tf total + 3 total + 9 doc_len n_token_lists).
Bm25Term(idf, tf, doc_len, total, n_token_lists) ==
    (idf * 20 * tf * total) \div (8 * tf * total + 3 * total + 9 * doc_len * n_token_lists)

TermScore(term, tokens, doc_tokens, N) ==
    Bm25Term(Idf(N, DocFreqOf(term, doc_tokens)), TermCount(term, tokens),
             Len(tokens), TotalLen(doc_tokens), Len(doc_tokens))

\* A score that starts at 1 in place of 0.
DocScoreFromOne(query_terms, tokens, doc_tokens, N) ==
    Scale + SumSeq([j \in 1..Len(query_terms) |->
                      IF Contributes(query_terms[j], tokens, doc_tokens)
                      THEN TermScore(query_terms[j], tokens, doc_tokens, N)
                      ELSE 0])

DocScore(query_terms, tokens, doc_tokens, N) ==
    SumSeq([j \in 1..Len(query_terms) |->
              IF Contributes(query_terms[j], tokens, doc_tokens)
              THEN TermScore(query_terms[j], tokens, doc_tokens, N)
              ELSE 0])

\* doc_len / avg_doc_len divides by zero when a term contributes while the
\* average token-list length is 0.
ScoreDividesByZero(query_terms, doc_tokens) ==
    /\ TotalLen(doc_tokens) = 0
    /\ \E i \in 1..Len(doc_tokens), j \in 1..Len(query_terms) :
          Contributes(query_terms[j], doc_tokens[i], doc_tokens)

\* The score map of the loop over enumerate(doc_tokens): one entry per
\* token list, keyed by doc_ids[i]; a repeated id keeps its last score.
ScoreMap(query_terms, doc_tokens, doc_ids, N) ==
    [id \in {doc_ids[i] : i \in 1..Len(doc_tokens)} |->
        LET last == SetMax({i \in 1..Len(doc_tokens) : doc_ids[i] = id})
        IN DocScore(query_terms, doc_tokens[last], doc_tokens, N)]

_calculate_keyword_scores(query, documents, doc_ids) ==
    ScoreMap(QueryTerms(query),
             [i \in 1..Len(documents) |-> _tokenize(documents[i])],
             doc_ids, Len(documents))

\* doc_tokens = [doc_tok + ctx_tok for ... in zip(doc_tokens, context_tokens)]
ContextualTokens(documents, contexts) ==
    [i \in 1..Min2(Len(documents), Len(contexts)) |->
        _tokenize(documents[i]) \o _tokenize(contexts[i])]

_calculate_contextual_keyword_scores(query, documents, doc_ids, contexts) ==
    ScoreMap(QueryTerms(query), ContextualTokens(documents, contexts),
             doc_ids, Len(documents))

\* The token lists the contextual scorer scores (lines 130-136): with
\* contexts and self.enable_contextual the document tokens followed by the
\* context tokens, zipped; the document tokens otherwise.
ContextualScorerTokens(documents, contexts, enable_contextual) ==
    IF contexts # <<>> /\ enable_contextual
    THEN ContextualTokens(documents, contexts)
    ELSE [i \in 1..Len(documents) |-> _tokenize(documents[i])]

\* What the scoring loop of either scorer does with its token lists: the
\* score map, or the exception of doc_ids[i] or of doc_len / avg_doc_len.
ScorerOutcome(query_terms, doc_tokens, doc_ids, N) ==
    IF Len(doc_ids) < Len(doc_tokens)
    THEN [kind |-> "raise", error |-> "IndexError"]
    ELSE IF ScoreDividesByZero(query_terms, doc_tokens)
    THEN [kind |-> "raise", error |-> "ZeroDivisionError"]
    ELSE [kind |-> "return", value |-> ScoreMap(query_terms, doc_tokens, doc_ids, N)]

\* ------------------------------------------------------ gateway values
\* A Python dict returned by the gateway is a record: `has` is its key set,
\* the other fields are the values of the keys it has.
\* A metadata entry is [isNone, d]: None, or the mapping d.
NoneMeta == [isNone |-> TRUE, d |-> [k \in {} |-> 0]]
Meta(d) == [isNone |-> FALSE, d |-> d]
MetaGet(m, key, default) == IF key \in DOMAIN m.d THEN m.d[key] ELSE default

\* ------------------------------------------------------------- fusion
\* contexts = [m.get("context", "") for m in all_chunks["metadatas"]]
Contexts(metadatas) == [i \in 1..Len(metadatas) |-> MetaGet(metadatas[i], "context", <<>>)]

\* enable_contextual and "metadatas" in all_chunks and all_chunks["metadatas"]
ReadsContexts(enable_contextual, all_chunks) ==
    enable_contextual /\ "metadatas" \in all_chunks.has /\ all_chunks.metadatas # <<>>

\* vector_results[key][0] if vector_results[key] and vector_results[key][0] else []
FirstList(outer) == IF outer # <<>> /\ outer[1] # <<>> THEN outer[1] ELSE <<>>

\* The distances taken as similarities, without "1 -".
SimilaritiesAsDistances(vector_distances) == vector_distances

\* vector_similarities = [1 - dist for dist in vector_distances]
Similarities(vector_distances) ==
    [i \in 1..Len(vector_distances) |-> Scale - vector_distances[i]]

\* (sim - min_sim) / range_sim for every similarity, when range_sim > 0;
\* the similarities as they are otherwise.
NormalizedSimilarities(sims) ==
    IF sims = <<>> THEN sims
    ELSE LET max_sim == SetMax(Range(sims))
             min_sim == SetMin(Range(sims))
             range_sim == max_sim - min_sim
         IN IF range_sim > 0
            THEN [i \in 1..Len(sims) |-> ((sims[i] - min_sim) * Scale) \div range_sim]
            ELSE sims

\* {id_val: sim for id_val, sim in zip(ids, sims)}: a repeated id keeps the
\* value of its last occurrence.
ZipDict(ids, vals) ==
    LET n == Min2(Len(ids), Len(vals))
    IN [id \in {ids[i] : i \in 1..n} |->
          vals[SetMax({i \in 1..n : ids[i] = id})]]

DictGet(d, key, default) == IF key \in DOMAIN d THEN d[key] ELSE default

\* min(1.0, keyword_score / 10.0) if keyword_score > 0 else 0
NormKeywordScore(keyword_score) ==
    IF keyword_score > 0 THEN Min2(Scale, keyword_score \div 10) ELSE 0

\* Admission of every chunk with a positive score.
KeywordOnlyAdmittedAboveZero(score) == score > 0

\* score > 5: the threshold for keyword-only inclusion.
KeywordOnlyAdmitted(score) == score > 5 * Scale

\* The weighted combined score map, in units of 1/(100 * Scale).
WeightedScores(vector_weight, vector_ids, id_to_vector_sim, keyword_scores) ==
    [id \in Range(vector_ids)
           \cup {k \in DOMAIN keyword_scores : KeywordOnlyAdmitted(keyword_scores[k])} |->
        IF id \in Range(vector_ids)
        THEN vector_weight * DictGet(id_to_vector_sim, id, 0)
               + (100 - vector_weight) * NormKeywordScore(DictGet(keyword_scores, id, 0))
        ELSE (100 - vector_weight) * Min2(Scale, keyword_scores[id] \div 10)]

\* A key order that keeps every occurrence of a repeated neighbour id.
WeightedKeyOrderWithRepeats(vector_ids, score_order, keyword_scores) ==
    vector_ids \o SelectSeq(score_order,
                            LAMBDA k : k \notin Range(vector_ids)
                                       /\ KeywordOnlyAdmitted(keyword_scores[k]))

\* Key order of the weighted combined_scores dict: the vector ids, then the
\* admitted keyword-only ids in the order of keyword_scores (corpus order).
WeightedKeyOrder(vector_ids, score_order, keyword_scores) ==
    LET first == Dedup(vector_ids)
    IN first \o SelectSeq(score_order,
                          LAMBDA k : k \notin Range(vector_ids)
                                     /\ KeywordOnlyAdmitted(keyword_scores[k]))

\* {id_val: rank for rank, id_val in enumerate(ids)}
Ranks(ids) ==
    [id \in Range(ids) |-> SetMax({i \in 1..Len(ids) : ids[i] = id}) - 1]

\* sorted(keyword_scores.keys(), key=..., reverse=True)[:top_k * 2]
KeywordRankedIds(score_order, keyword_scores, top_k) ==
    Prefix(SortedDesc(score_order, keyword_scores), top_k * 2)

\* A fallback that is the first place.
FallbackRankFirst(corpus_ids) == 0

\* A fallback one place further down than the code's.
FallbackRankPastEnd(corpus_ids) == Len(corpus_ids) + 1

\* Rank given to an id missing from a ranking: len(all_chunks["ids"]).
FallbackRank(corpus_ids) == Len(corpus_ids)

VRank(id, vector_ranks, corpus_ids) == DictGet(vector_ranks, id, FallbackRank(corpus_ids))
KRank(id, keyword_ranks, corpus_ids) == DictGet(keyword_ranks, id, FallbackRank(corpus_ids))

\* Common denominator of the RRF scores of one call.
RrfDen(all_ids, vector_ranks, keyword_ranks, corpus_ids, rrf_k) ==
    SetLcm({VRank(id, vector_ranks, corpus_ids) + rrf_k : id \in all_ids}
           \cup {KRank(id, keyword_ranks, corpus_ids) + rrf_k : id \in all_ids})

\* (1 / (v_rank + rrf_k)) + (1 / (k_rank + rrf_k)), as a numerator over den.
RrfScore(v_rank, k_rank, rrf_k, den) ==
    (den \div (v_rank + rrf_k)) + (den \div (k_rank + rrf_k))

RrfScores(vector_ranks, keyword_ranks, corpus_ids, rrf_k) ==
    LET all_ids == DOMAIN vector_ranks \cup DOMAIN keyword_ranks
        den == RrfDen(all_ids, vector_ranks, keyword_ranks, corpus_ids, rrf_k)
    IN [id \in all_ids |->
          RrfScore(VRank(id, vector_ranks, corpus_ids),
                   KRank(id, keyword_ranks, corpus_ids), rrf_k, den)]

\* The min-max normalization without the inversion "1 -".
NormalizedDistanceNotInverted(score, min_score, max_score) ==
    IF max_score - min_score > 0
    THEN ((score - min_score) * DistScale) \div (max_score - min_score)
    ELSE DistScale \div 2

\* 1 - (score - min_score) / range_score, or 0.5 when all scores are equal.
NormalizedDistance(score, min_score, max_score) ==
    IF max_score - min_score > 0
    THEN DistScale - ((score - min_score) * DistScale) \div (max_score - min_score)
    ELSE DistScale \div 2

NormalizedDistances(combined_scores) ==
    [id \in DOMAIN combined_scores |->
        LET vals == {combined_scores[k] : k \in DOMAIN combined_scores}
        IN NormalizedDistance(combined_scores[id], SetMin(vals), SetMax(vals))]


\* ---------------------------------------------------- ContentFormatter
\* A text is a sequence of pieces.  The pieces that matter to the regular
\* expressions of clean_text_content are
\*   "=40", "=80"        40 and 80 characters "="
\*   "NL", "SP"          a newline, a space
\*   "Page 1 o", "f 2"   which side by side read "Page 1 of 2"
\*   "Image: x"          an image reference
\*   "Content Type: t", "Page Number: 3"   the two lines of a page header
\* and every other piece is a word.  No match of an expression can start or
\* end inside a piece, so each expression is matched on the pieces.
EqCount(piece) == IF piece = "=40" THEN 40 ELSE IF piece = "=80" THEN 80 ELSE 0

IsEq(piece) == EqCount(piece) > 0

IsSpace(piece) == piece \in {"NL", "SP"}

\* Last index of the run of "=" pieces that starts at i (i - 1 if none).
EqRunEnd(text, i) ==
    SetMax({e \in (i - 1)..Len(text) : \A k \in i..e : IsEq(text[k])})

\* \s*
SpaceRunEnd(text, i) ==
    SetMax({e \in (i - 1)..Len(text) : \A k \in i..e : IsSpace(text[k])})

\* [^\n]*
NonNewlineRunEnd(text, i) ==
    SetMax({e \in (i - 1)..Len(text) : \A k \in i..e : text[k] # "NL"})

\* \n*
NewlineRunEnd(text, i) ==
    SetMax({e \in (i - 1)..Len(text) : \A k \in i..e : text[k] = "NL"})

\* Number of "=" characters in text[i..e].
EqTotal(text, i, e) == SumSeq([k \in 1..(e - i + 1) |-> EqCount(text[i + k - 1])])

\* ={80,} at i: the end of the run when it has 80 characters or more, else 0.
Eq80End(text, i) ==
    IF i <= Len(text) /\ IsEq(text[i]) /\ EqTotal(text, i, EqRunEnd(text, i)) >= 80
    THEN EqRunEnd(text, i) ELSE 0

\* ={80,}\s*Content Type: [^\n]*\s*Page Number: \d+\s*={80,}
\* The greedy [^\n]* settles on the last "Page Number" line that can end
\* the match.  The end of the match starting at i, 0 if there is none.
HeaderMatchEnd(text, i) ==
    LET r == Eq80End(text, i)
        w == SpaceRunEnd(text, r + 1) + 1
        line_end == NonNewlineRunEnd(text, w + 1)
        closes == {p \in (w + 1)..Len(text) :
                     /\ text[p] = "Page Number: 3"
                     /\ \E j \in w..Min2(line_end, p - 1) :
                           \A k \in (j + 1)..(p - 1) : IsSpace(text[k])
                     /\ Eq80End(text, SpaceRunEnd(text, p + 1) + 1) > 0}
    IN IF r = 0 \/ w > Len(text) THEN 0
       ELSE IF text[w] # "Content Type: t" \/ closes = {} THEN 0
       ELSE Eq80End(text, SpaceRunEnd(text, SetMax(closes) + 1) + 1)

\* Page \d+ of \d+
PageMatchEnd(text, i) ==
    IF text[i] = "Page 1 o" /\ i < Len(text) /\ text[i + 1] = "f 2" THEN i + 1 ELSE 0

\* Image: [^\n]+
ImageMatchEnd(text, i) ==
    IF text[i] = "Image: x" THEN NonNewlineRunEnd(text, i + 1) ELSE 0

\* ={40,}
SeparatorMatchEnd(text, i) == IF IsEq(text[i]) THEN EqRunEnd(text, i) ELSE 0

\* \n{3,}
NewlinesMatchEnd(text, i) ==
    IF NewlineRunEnd(text, i) >= i + 2 THEN NewlineRunEnd(text, i) ELSE 0

MatchEnd(pattern, text, i) ==
    CASE pattern = "header" -> HeaderMatchEnd(text, i)
      [] pattern = "page" -> PageMatchEnd(text, i)
      [] pattern = "image" -> ImageMatchEnd(text, i)
      [] pattern = "separator" -> SeparatorMatchEnd(text, i)
      [] pattern = "newlines" -> NewlinesMatchEnd(text, i)

Replacement(pattern) == IF pattern = "newlines" THEN <<"NL", "NL">> ELSE <<>>

\* re.sub(pattern, replacement, text): the matches are found left to right
\* in the given text, each search starting where the last match ended; the
\* replacement text is not searched again.
RECURSIVE ReSub(_, _, _)
ReSub(pattern, text, i) ==
    IF i > Len(text) THEN <<>>
    ELSE LET e == MatchEnd(pattern, text, i)
         IN IF e >= i
            THEN Replacement(pattern) \o ReSub(pattern, text, e + 1)
            ELSE <<text[i]>> \o ReSub(pattern, text, i + 1)

\* str.strip()
Strip(text) ==
    LET kept == {i \in 1..Len(text) : ~IsSpace(text[i])}
    IN IF kept = {} THEN <<>> ELSE SubSeq(text, SetMin(kept), SetMax(kept))

\* ContentFormatter.clean_text_content
clean_text_content(text) ==
    IF text = <<>> THEN <<>>
    ELSE LET no_header == ReSub("header", text, 1)
             no_page == ReSub("page", no_header, 1)
             no_image == ReSub("image", no_page, 1)
             no_separator == ReSub("separator", no_image, 1)
             cleaned == ReSub("newlines", no_separator, 1)
         IN Strip(cleaned)

\* ----------------------------------------------------------- retrieve()
Raise(error) == [kind |-> "raise", error |-> error]

\* dict.get(key, None) of a metadata mapping, as a set: {} is None.
MetaOpt(m, key) == IF key \in DOMAIN m.d THEN {m.d[key]} ELSE {}

\* The token lists the lexical scorer works on (lines 192-201).
DocTokens(enable_contextual, all_chunks) ==
    IF ReadsContexts(enable_contextual, all_chunks)
    THEN ContextualTokens(all_chunks.documents, Contexts(all_chunks.metadatas))
    ELSE [i \in 1..Len(all_chunks.documents) |-> _tokenize(all_chunks.documents[i])]

KeywordScores(query, enable_contextual, all_chunks) ==
    IF ReadsContexts(enable_contextual, all_chunks)
    THEN _calculate_contextual_keyword_scores(
             query, all_chunks.documents, all_chunks.ids, Contexts(all_chunks.metadatas))
    ELSE _calculate_keyword_scores(query, all_chunks.documents, all_chunks.ids)

\* The exception raised between the gateway calls and the fusion
\* (lines 190-228), or "none".
PreFusionError(query, enable_contextual, all_chunks, vector_results) ==
    LET doc_tokens == DocTokens(enable_contextual, all_chunks)
    IN IF ReadsContexts(enable_contextual, all_chunks)
          /\ \E i \in 1..Len(all_chunks.metadatas) : all_chunks.metadatas[i].isNone
          THEN "AttributeError"           \* m.get on None, line 193
       ELSE IF "ids" \notin all_chunks.has
          THEN "KeyError"                 \* all_chunks["ids"]
       ELSE IF Len(all_chunks.ids) < Len(doc_tokens)
          THEN "IndexError"               \* doc_ids[i]
       ELSE IF ScoreDividesByZero(QueryTerms(query), doc_tokens)
          THEN "ZeroDivisionError"        \* doc_len / avg_doc_len
       ELSE IF "ids" \notin vector_results.has \/ "distances" \notin vector_results.has
          THEN "KeyError"                 \* vector_results["ids"], ["distances"]
       ELSE IF Len(all_chunks.documents) < Len(all_chunks.ids)
          THEN "IndexError"               \* all_chunks["documents"][i]
       ELSE IF "metadatas" \notin all_chunks.has
          THEN "KeyError"                 \* all_chunks["metadatas"]
       ELSE IF all_chunks.metadatas # <<>>
               /\ Len(all_chunks.metadatas) < Len(all_chunks.ids)
          THEN "IndexError"               \* all_chunks["metadatas"][i]
       ELSE "none"

\* The locals of retrieve() once the fusion is done (lines 203-323).
FusionLocals(query, top_k, use_rrf, vector_weight, rrf_k, enable_contextual, all_chunks, vector_results) ==
    LET keyword_scores == KeywordScores(query, enable_contextual, all_chunks)
        vector_ids == FirstList(vector_results.ids)
        vector_distances == FirstList(vector_results.distances)
        vector_similarities == Similarities(vector_distances)
        score_order ==
            Dedup(Prefix(all_chunks.ids, Len(DocTokens(enable_contextual, all_chunks))))
        vector_ranks == Ranks(vector_ids)
        keyword_ranks == Ranks(KeywordRankedIds(score_order, keyword_scores, top_k))
        raw_sim == ZipDict(vector_ids, vector_similarities)
        norm_sim == ZipDict(vector_ids, NormalizedSimilarities(vector_similarities))
        combined_scores ==
            IF use_rrf
            THEN RrfScores(vector_ranks, keyword_ranks, all_chunks.ids, rrf_k)
            ELSE WeightedScores(vector_weight, vector_ids, norm_sim, keyword_scores)
    IN [fused |-> TRUE,
        query_terms |-> QueryTerms(query),
        keyword_scores |-> keyword_scores,
        vector_ids |-> vector_ids,
        vector_ranks |-> IF use_rrf THEN vector_ranks ELSE [k \in {} |-> 0],
        keyword_ranks |-> IF use_rrf THEN keyword_ranks ELSE [k \in {} |-> 0],
        id_to_vector_sim |-> IF use_rrf THEN raw_sim ELSE norm_sim,
        weighted_order |-> WeightedKeyOrder(vector_ids, score_order, keyword_scores),
        rrf_den |-> IF use_rrf
                    THEN RrfDen(DOMAIN vector_ranks \cup DOMAIN keyword_ranks,
                                vector_ranks, keyword_ranks, all_chunks.ids, rrf_k)
                    ELSE 1,
        combined_scores |-> combined_scores,
        normalized_distances |-> NormalizedDistances(combined_scores),
        top_ids |-> <<>>]

RECURSIVE Perms(_)
Perms(S) == IF S = {} THEN {<<>>}
            ELSE UNION {{<<x>> \o p : p \in Perms(S \ {x})} : x \in S}

NonIncreasing(order, key) ==
    \A i \in 1..Len(order) - 1 : key[order[i]] >= key[order[i + 1]]

\* The keys in any order: no sort by combined score.
KeyOrdersUnsorted(use_rrf, locals) == Perms(DOMAIN locals.combined_scores)

\* The orders sorted(combined_scores.keys(), ...) can give.  In weighted mode
\* the keys are in insertion order and the sort is stable: one order.  In RRF
\* mode the keys were inserted while iterating the Python set all_ids, whose
\* iteration order is unspecified: every non-increasing order of the keys is
\* the stable sort of some iteration order.
SortedKeyOrders(use_rrf, locals) ==
    IF use_rrf
    THEN {p \in Perms(DOMAIN locals.combined_scores) :
             NonIncreasing(p, locals.combined_scores)}
    ELSE {SortedDesc(locals.weighted_order, locals.combined_scores)}

\* top_ids = sorted(...)[:top_k]
\* The sorted keys without the [:top_k] slice.
TopIdsUnsliced(sorted_keys, top_k) == sorted_keys

TopIds(sorted_keys, top_k) == Prefix(sorted_keys, top_k)

\* id_to_metadata[id_val]: all_chunks["metadatas"][i] if all_chunks["metadatas"]
\* else {}; a repeated id keeps its last entry.
IdToMetadata(all_chunks, id_val) ==
    IF all_chunks.metadatas = <<>> THEN Meta([k \in {} |-> 0])
    ELSE all_chunks.metadatas[SetMax({i \in 1..Len(all_chunks.ids) :
                                        all_chunks.ids[i] = id_val})]

\* The ids of top_ids that get a result entry: if id_val in id_to_doc.
Emitted(top_ids, all_chunks) ==
    SelectSeq(top_ids, LAMBDA id_val : id_val \in Range(all_chunks.ids))

\* Entries that name the reciprocal-rank method whatever the mode is.
ResultEntryAlwaysRrf(id_val, use_rrf, enable_contextual, locals, metadata) ==
    [id |-> id_val,
     metadata |-> metadata,
     page |-> IF MetaOpt(metadata, "page_number") # {}
              THEN MetaOpt(metadata, "page_number")
              ELSE MetaOpt(metadata, "chunk_index"),
     distance |-> DictGet(locals.normalized_distances, id_val, DistScale \div 2),
     keyword_score |-> DictGet(locals.keyword_scores, id_val, 0),
     combined_score |-> locals.combined_scores[id_val],
     filename |-> MetaGet(metadata, "pdf_filename", "Unknown"),
     context |-> IF enable_contextual THEN MetaGet(metadata, "context", <<>>) ELSE <<>>,
     retrieval_method |-> "rrf"]

\* One entry of processed_results (lines 328-361).
ResultEntry(id_val, use_rrf, enable_contextual, locals, metadata) ==
    [id |-> id_val,
     metadata |-> metadata,
     page |-> IF MetaOpt(metadata, "page_number") # {}
              THEN MetaOpt(metadata, "page_number")
              ELSE MetaOpt(metadata, "chunk_index"),
     distance |-> DictGet(locals.normalized_distances, id_val, DistScale \div 2),
     keyword_score |-> DictGet(locals.keyword_scores, id_val, 0),
     combined_score |-> locals.combined_scores[id_val],
     filename |-> MetaGet(metadata, "pdf_filename", "Unknown"),
     context |-> IF enable_contextual THEN MetaGet(metadata, "context", <<>>) ELSE <<>>,
     retrieval_method |-> IF use_rrf THEN "rrf" ELSE "weighted"]

\* The first metadata entry that has a document_summary, if any ({} is None).
DocumentSummary(metadatas) ==
    LET hits == {i \in 1..Len(metadatas) :
                    ~metadatas[i].isNone /\ "document_summary" \in DOMAIN metadatas[i].d}
    IN IF hits = {} THEN {} ELSE {metadatas[SetMin(hits)].d["document_summary"]}

\* Result formatting and the return statement (lines 325-374).
FormatResults(query, top_k, use_rrf, vector_weight, rrf_k, enable_contextual, collection, all_chunks, locals, sorted_keys) ==
    LET top_ids == TopIds(sorted_keys, top_k)
        emitted == Emitted(top_ids, all_chunks)
        processed_results ==
            [i \in 1..Len(emitted) |->
                ResultEntry(emitted[i], use_rrf, enable_contextual, locals,
                            IdToMetadata(all_chunks, emitted[i]))]
    IN IF \E i \in 1..Len(emitted) : IdToMetadata(all_chunks, emitted[i]).isNone
       THEN Raise("AttributeError")           \* metadata.get on None, line 337
       ELSE [kind |-> "return",
             value |-> [status |-> "success",
                        query |-> query,
                        results |-> processed_results,
                        document_summary |-> DocumentSummary(all_chunks.metadatas),
                        collection |-> collection,
                        count |-> Len(processed_results),
                        contextual_retrieval |-> enable_contextual,
                        retrieval_method |-> IF use_rrf THEN "rrf" ELSE "weighted",
                        rrf_k |-> IF use_rrf THEN {rrf_k} ELSE {},
                        vector_weight |-> IF use_rrf THEN {} ELSE {vector_weight}]]

\* A neighbour count without the floor of one.
NResultsWithoutFloor(top_k, all_chunks) == Min2(top_k * 2, Len(all_chunks.documents))

\* A neighbour count taken from top_k alone.
NResultsFixed(top_k, all_chunks) == Max2(1, top_k * 2)

\* n_results=max(1, min(top_k * 2, len(all_chunks["documents"])))
NResults(top_k, all_chunks) == Max2(1, Min2(top_k * 2, Len(all_chunks.documents)))

\* A handler that reports a fixed message in place of str(e).
RouteResultFixedMessage(outcome) ==
    IF outcome.kind = "raise"
    THEN [status |-> "error", error |-> "Internal error"]
    ELSE outcome.value

\* query_vector_store_sync: the value of retrieve() is returned; an
\* exception is caught and turned into the error value.
RouteResult(outcome) ==
    IF outcome.kind = "raise"
    THEN [status |-> "error", error |-> outcome.error]
    ELSE outcome.value

\* ------------------------------------------------- AIEngine return values
\* What query_vectordb hands to the wrapper: a Python value (isdict says
\* whether it is a dict, status is its "status" entry, hasResult whether
\* it has a "result" entry), or an exception of the transport.
Response(isdict, status, hasResult, error) ==
    [raised |-> FALSE, isdict |-> isdict, status |-> status,
     hasResult |-> hasResult, error |-> error]

\* return {"status": "error", "error": "Request timed out"}
TimedOut == Response(TRUE, "error", FALSE, "Request timed out")

\* return {"status": "error", "error": f"Failed to parse response: {e}", ...}
ParseFailed == Response(TRUE, "error", FALSE, "Failed to parse response")

\* The reply bodies of the VectorDB service, by what json.loads makes of them.
Bodies == {"success", "success_no_result", "error", "not_object", "garbage", "not_utf8"}

\* json.loads fails on "garbage" and on "not_utf8"; the handler then calls
\* self.response.decode(), which raises for bytes that are not UTF-8.
DecodeRaises(body) == body = "not_utf8"

\* json.loads(self.response), or the parse-error value.
ParseBody(body) ==
    CASE body = "success" -> Response(TRUE, "success", TRUE, "")
      [] body = "success_no_result" -> Response(TRUE, "success", FALSE, "")
      [] body = "error" -> Response(TRUE, "error", FALSE, "service error")
      [] body = "not_object" -> Response(FALSE, "", FALSE, "")
      [] OTHER -> ParseFailed

Raised(error) ==
    [raised |-> TRUE, isdict |-> FALSE, status |-> "", hasResult |-> FALSE,
     error |-> error]

\* basic_publish or process_data_events raising (connection lost).
TransportError == Raised("AMQPConnectionError")

\* return json.loads(self.response), with its exception handler (lines 144-148).
ParseResponse(body) ==
    IF DecodeRaises(body) THEN Raised("UnicodeDecodeError") ELSE ParseBody(body)

\* Everything a call of query_vectordb can do.
EngineOutcomes == {TimedOut, TransportError} \cup {ParseResponse(b) : b \in Bodies}

\* ---------------------------------------------------- VectorDBWrapper
Return(value) == [kind |-> "return", value |-> value]

EmptyChunks ==
    [has |-> {"ids", "documents", "metadatas", "embeddings"},
     ids |-> <<>>, documents |-> <<>>, metadatas |-> <<>>]

\* response.get("result", {}) when the reply has no "result".
NoKeys(value) == [value EXCEPT !.has = {}]

EmptyQueryResult ==
    [has |-> {"ids", "documents", "metadatas", "distances"},
     ids |-> <<<<>>>>, distances |-> <<<<>>>>]

\* VectorDBWrapper.get, given what query_vectordb did and the "result" of
\* the reply.
VectorDBWrapper_get(reply, result) ==
    IF reply.raised THEN Raise(reply.error)
    ELSE IF ~reply.isdict THEN Raise("AttributeError")
    ELSE IF reply.status = "success"
         THEN Return(IF reply.hasResult THEN result ELSE NoKeys(EmptyChunks))
    ELSE Return(EmptyChunks)

\* VectorDBWrapper.query
VectorDBWrapper_query(reply, result) ==
    IF reply.raised THEN Raise(reply.error)
    ELSE IF ~reply.isdict THEN Raise("AttributeError")
    ELSE IF reply.status = "success"
         THEN Return(IF reply.hasResult THEN result ELSE NoKeys(EmptyQueryResult))
    ELSE Return(EmptyQueryResult)

\* ------------------------------------------------------ the collection
\* The chunks a collection can hold.  A corpus is a subsequence of ChunkIds.
ChunkIds == <<"c1", "c2", "c3", "c4">>

ChunkDocument(id) ==
    CASE id = "c1" -> <<"Power", "grid", "analysis", ".">>
      [] id = "c2" -> <<"cooking", "recipe", "book">>
      [] id = "c3" -> <<"electrical", "power", "systems">>
      [] OTHER -> <<>>

ChunkMetadata(id) ==
    CASE id = "c1" -> Meta([page_number |-> 4, pdf_filename |-> "a.pdf",
                            context |-> <<"The", "grid">>])
      [] id = "c2" -> Meta([k \in {} |-> 0])
      [] id = "c3" -> Meta([chunk_index |-> 7, document_summary |-> "S3",
                            context |-> <<>>])
      [] OTHER -> NoneMeta

Chunks(ids) ==
    [has |-> {"ids", "documents", "metadatas"},
     ids |-> ids,
     documents |-> [i \in 1..Len(ids) |-> ChunkDocument(ids[i])],
     metadatas |-> [i \in 1..Len(ids) |-> ChunkMetadata(ids[i])]]

RECURSIVE SubSeqs(_)
SubSeqs(s) ==
    IF s = <<>> THEN {<<>>}
    ELSE LET rest == SubSeqs(Tail(s))
         IN rest \cup {<<Head(s)>> \o r : r \in rest}

Corpora == {Chunks(ids) : ids \in SubSeqs(ChunkIds)}

\* The ids a nearest-neighbour reply can name: chunks of the collection, and
\* a chunk that no fetched corpus holds (added after the corpus fetch).
VectorIds == {"c1", "c3", "c9"}

\* Distances of a reply, best first: 0.1, 0.3, 0.5, ... or all 0.2.
SpreadDistances(n) == [i \in 1..n |-> (Scale \div 10) * (2 * i - 1)]
FlatDistances(n) == [i \in 1..n |-> Scale \div 5]

RECURSIVE SeqsUpTo(_, _)
SeqsUpTo(S, n) ==
    IF n = 0 THEN {<<>>}
    ELSE LET shorter == SeqsUpTo(S, n - 1)
         IN shorter \cup {Append(q, x) : q \in shorter, x \in S}

QueryResult(ids, distances) ==
    [has |-> {"ids", "documents", "metadatas", "distances"},
     ids |-> <<ids>>, distances |-> <<distances>>]

\* A neighbour list that names one chunk twice.
RepeatedIds(n_results) ==
    IF Min2(n_results, MaxVector) >= 2 THEN {<<"c1", "c1">>} ELSE {}

\* The replies to a query for n_results neighbours: at most n_results
\* distinct ids, or the list with a repeated id.
QueryResults(n_results) ==
    UNION {{QueryResult(ids, SpreadDistances(Len(ids))),
            QueryResult(ids, FlatDistances(Len(ids)))} :
           ids \in {q \in SeqsUpTo(VectorIds, Min2(n_results, MaxVector)) :
                        Cardinality(Range(q)) = Len(q)}
                   \cup RepeatedIds(n_results)}

\* The queries of the model.
Queries ==
    {<<"power", "grid">>,
     <<"Power", "grid", ",", "systems">>,
     <<"The", "of">>,
     Rep("grid", 12) \o Rep("recipe", 16)}

\* The retriever configurations: (use_rrf, vector_weight in hundredths, rrf_k).
Configs == {<<TRUE, 70, 60>>, <<TRUE, 70, 2>>, <<FALSE, 70, 60>>, <<FALSE, 100, 60>>}

\* ================================================================ state
VARIABLES
    pc,                 \* where query_vector_store_sync is
    query, top_k,       \* the arguments of retrieve()
    use_rrf, vector_weight, rrf_k, enable_contextual, collection_name,
                        \* the fields of the HybridRetriever
    get_response,       \* what query_vectordb did for get_all
    all_chunks,         \* the value of self.collection.get()
    n_results,          \* the n_results of the query request ({} before it)
    sent,               \* the requests this call of retrieve() handed to
                        \* query_vectordb, in order
    again,              \* this retriever has served a call of retrieve() before
    query_response,     \* what query_vectordb did for the query
    vector_results,     \* the value of self.collection.query(...)
    locals,             \* the locals of retrieve() after the fusion
    outcome,            \* what retrieve() did: returned a value or raised
    raised_in,          \* where the exception came from: "get", "query" (the
                        \* gateway calls), "retrieve" (lines 186-323),
                        \* "format" (lines 325-361); "none" without exception
    route_result        \* the value query_vector_store_sync returned

\* One AIEngine and the broker it talks to.
VARIABLES
    eng_pc,             \* where query_vectordb is: idle, waiting, ended
    response,           \* self.response: "None" or the body received
    response_for,       \* the correlation id of the message self.response
                        \* was taken from, 0 for None
    corr_id,            \* self.corr_id: 0 is None
    elapsed,            \* time.time() - start_time, in seconds
    published,          \* the requests published to REQUEST_QUEUE, in order
    callback_queue,     \* the replies waiting in the callback queue
    answered,           \* the correlation ids the service has replied to
    eng_result          \* what the last call of query_vectordb did

\* One text on its way through ContentFormatter.
VARIABLES
    fmt_pc,             \* idle, cleaned (once), recleaned
    raw_text,           \* the text given to clean_text_content
    cleaned_once,       \* clean_text_content(raw_text)
    cleaned_twice       \* the cleaned text, cleaned again

\* One call of HybridRetriever.__init__.
VARIABLES
    ctor_pc,            \* idle, get_default, list, get_fallback, constructed, failed
    project_name,       \* the project_name argument
    default_get,        \* the first get_collection: "none", "ok", "raised"
    listed,             \* what list_collections() returned
    self_collection_name,   \* self.collection_name
    ctor_error          \* the exception leaving __init__, "" if none

\* One call of a lexical scorer.
VARIABLES
    sc_pc,              \* idle, scored
    sc_query,           \* the query argument
    sc_documents,       \* the documents argument
    sc_contexts,        \* the contexts argument (<<>> is None or [])
    sc_contextual,      \* self.enable_contextual
    sc_outcome          \* the score map returned, or the exception raised

\* The classify-document requests and the ThreadManager singleton.
VARIABLES
    req_pc,             \* per request: where classify_document is
    active_tasks        \* thread_manager.active_tasks: status per task id

\* The runs of DocumentClassificationWorkflow.process_classification.
VARIABLES
    wf_pc,              \* per run: the step the run is at, or "returned"
    wf_small,           \* per run: the extracted document is below the
                        \* fast-bypass sizes
    wf_updates,         \* per run: the status updates sent, in order
    wf_reports,         \* per run: the calls of notify_backend_completion
    wf_result           \* per run: the status of the returned value

route_vars == <<pc, query, top_k, use_rrf, vector_weight, rrf_k, enable_contextual,
                collection_name, get_response, all_chunks, n_results, sent,
                again, query_response, vector_results, locals, outcome, raised_in,
                route_result>>

engine_vars == <<eng_pc, response, response_for, corr_id, elapsed, published, callback_queue,
                 answered, eng_result>>

formatter_vars == <<fmt_pc, raw_text, cleaned_once, cleaned_twice>>

workflow_vars == <<wf_pc, wf_small, wf_updates, wf_reports, wf_result>>

pool_vars == <<req_pc, active_tasks>>

scorer_vars == <<sc_pc, sc_query, sc_documents, sc_contexts, sc_contextual, sc_outcome>>

ctor_vars == <<ctor_pc, project_name, default_get, listed, self_collection_name, ctor_error>>

vars == <<route_vars, engine_vars, formatter_vars, ctor_vars,
         scorer_vars,
         pool_vars,
         workflow_vars>>

retriever == <<use_rrf, vector_weight, rrf_k, enable_contextual, collection_name>>

NoResponse == Response(FALSE, "none", FALSE, "")
NoLocals == [fused |-> FALSE,
             query_terms |-> <<>>,
             keyword_scores |-> [k \in {} |-> 0],
             vector_ids |-> <<>>,
             vector_ranks |-> [k \in {} |-> 0],
             keyword_ranks |-> [k \in {} |-> 0],
             id_to_vector_sim |-> [k \in {} |-> 0],
             weighted_order |-> <<>>,
             rrf_den |-> 1,
             combined_scores |-> [k \in {} |-> 0],
             normalized_distances |-> [k \in {} |-> 0],
             top_ids |-> <<>>]
NoOutcome == [kind |-> "none"]
NoResult == [status |-> "none"]

\* A request is a call of query_vector_store_sync; the state between two
\* requests holds nothing of the previous one (the retriever and its
\* wrapper are built per request).
RouteInit ==
    /\ pc = "idle"
    /\ query = <<>>
    /\ top_k = 1
    /\ use_rrf = TRUE
    /\ vector_weight = 70
    /\ rrf_k = 60
    /\ enable_contextual = TRUE
    /\ collection_name = "proj_pdf_content"
    /\ get_response = NoResponse
    /\ all_chunks = EmptyChunks
    /\ n_results = {}
    /\ sent = <<>>
    /\ again = FALSE
    /\ query_response = NoResponse
    /\ vector_results = EmptyQueryResult
    /\ locals = NoLocals
    /\ outcome = NoOutcome
    /\ raised_in = "none"
    /\ route_result = NoResult

\* query_vector_store_sync is called and builds the retriever (lines 40-59).
RouteStart ==
    /\ pc = "idle"
    /\ \E q \in Queries, k \in 1..MaxTopK, cfg \in Configs, ctx \in BOOLEAN :
          /\ query' = q
          /\ top_k' = k
          /\ use_rrf' = cfg[1]
          /\ vector_weight' = cfg[2]
          /\ rrf_k' = cfg[3]
          /\ enable_contextual' = ctx
    /\ pc' = "get"
    /\ get_response' = NoResponse
    /\ all_chunks' = EmptyChunks
    /\ n_results' = {}
    /\ sent' = <<>>
    /\ again' = FALSE
    /\ query_response' = NoResponse
    /\ vector_results' = EmptyQueryResult
    /\ locals' = NoLocals
    /\ outcome' = NoOutcome
    /\ raised_in' = "none"
    /\ route_result' = NoResult
    /\ UNCHANGED collection_name
    /\ UNCHANGED <<engine_vars, formatter_vars, ctor_vars, scorer_vars, pool_vars, workflow_vars>>

\* The request VectorDBWrapper.get() hands to query_vectordb (lines 34-38 of
\* the wrapper): no query text, the default n_results.
GetRequest(name) ==
    [operation |-> "get_all", collection |-> name, query_text |-> <<>>, n_results |-> 5]

\* The request VectorDBWrapper.query() hands to query_vectordb (lines 71-77).
QueryRequest(name, query_text, n) ==
    [operation |-> "query", collection |-> name, query_text |-> query_text, n_results |-> n]

\* retrieve() ends: query_vector_store_sync returns.
Leave(o, where) ==
    /\ outcome' = o
    /\ raised_in' = IF o.kind = "raise" THEN where ELSE "none"
    /\ route_result' = RouteResult(o)
    /\ pc' = "done"

\* all_chunks = self.collection.get()  (line 179)
CollectionGet ==
    /\ pc = "get"
    /\ \E reply \in EngineOutcomes :
       \E result \in IF reply.hasResult THEN Corpora ELSE {EmptyChunks} :
          LET got == VectorDBWrapper_get(reply, result)
          IN /\ get_response' = reply
             /\ sent' = Append(sent, GetRequest(collection_name))
             /\ IF got.kind = "raise"
                THEN /\ Leave(got, "get")
                     /\ UNCHANGED all_chunks
                ELSE /\ all_chunks' = got.value
                     /\ pc' = "query"
                     /\ UNCHANGED <<outcome, raised_in, route_result>>
    /\ UNCHANGED <<query, top_k, retriever, n_results, again, query_response,
                   vector_results, locals>>
    /\ UNCHANGED <<engine_vars, formatter_vars, ctor_vars, scorer_vars, pool_vars, workflow_vars>>

\* vector_results = self.collection.query(query_texts=[query], n_results=...)
\* (lines 184-187); len(all_chunks["documents"]) is evaluated first.
CollectionQuery ==
    /\ pc = "query"
    /\ IF "documents" \notin all_chunks.has
       THEN /\ Leave(Raise("KeyError"), "retrieve")
            /\ UNCHANGED <<n_results, sent, query_response, vector_results>>
       ELSE LET n == NResults(top_k, all_chunks)
            IN \E reply \in EngineOutcomes :
               \E result \in IF reply.hasResult
                             THEN QueryResults(n) ELSE {EmptyQueryResult} :
                  LET got == VectorDBWrapper_query(reply, result)
                  IN /\ n_results' = {n}
                     /\ sent' = Append(sent, QueryRequest(collection_name, query, n))
                     /\ query_response' = reply
                     /\ IF got.kind = "raise"
                        THEN /\ Leave(got, "query")
                             /\ UNCHANGED vector_results
                        ELSE /\ vector_results' = got.value
                             /\ pc' = "fuse"
                             /\ UNCHANGED <<outcome, raised_in, route_result>>
    /\ UNCHANGED <<query, top_k, retriever, get_response, all_chunks, again, locals>>
    /\ UNCHANGED <<engine_vars, formatter_vars, ctor_vars, scorer_vars, pool_vars, workflow_vars>>

\* The rest of retrieve() (lines 190-374).
RetrieveFuse ==
    /\ pc = "fuse"
    /\ LET error == PreFusionError(query, enable_contextual, all_chunks, vector_results)
       IN IF error # "none"
          THEN /\ Leave(Raise(error), "retrieve")
               /\ UNCHANGED locals
          ELSE LET fused == FusionLocals(query, top_k, use_rrf, vector_weight, rrf_k,
                                         enable_contextual, all_chunks, vector_results)
               IN \E sorted_keys \in SortedKeyOrders(use_rrf, fused) :
                     /\ locals' = [fused EXCEPT !.top_ids = TopIds(sorted_keys, top_k)]
                     /\ Leave(FormatResults(query, top_k, use_rrf, vector_weight, rrf_k,
                                            enable_contextual, collection_name,
                                            all_chunks, fused, sorted_keys), "format")
    /\ UNCHANGED <<query, top_k, retriever, get_response, all_chunks, n_results,
                   sent, again, query_response, vector_results>>
    /\ UNCHANGED <<engine_vars, formatter_vars, ctor_vars, scorer_vars, pool_vars, workflow_vars>>

\* A retriever that skips the fetch on its later calls and goes on with the
\* corpus of the call before.
RetrieveAgainCached ==
    /\ pc = "done"
    /\ \E q \in Queries, k \in 1..MaxTopK :
          /\ query' = q
          /\ top_k' = k
    /\ pc' = "query"
    /\ again' = TRUE
    /\ n_results' = {}
    /\ sent' = <<>>
    /\ query_response' = NoResponse
    /\ vector_results' = EmptyQueryResult
    /\ locals' = NoLocals
    /\ outcome' = NoOutcome
    /\ raised_in' = "none"
    /\ route_result' = NoResult
    /\ UNCHANGED <<retriever, get_response, all_chunks>>
    /\ UNCHANGED <<engine_vars, formatter_vars, ctor_vars, scorer_vars, pool_vars, workflow_vars>>

\* retrieve() is called once more on the same retriever (line 174): the
\* fields of the retriever stay, every local of the call is new.
RetrieveAgain ==
    /\ pc = "done"
    /\ \E q \in Queries, k \in 1..MaxTopK :
          /\ query' = q
          /\ top_k' = k
    /\ pc' = "get"
    /\ again' = TRUE
    /\ get_response' = NoResponse
    /\ all_chunks' = EmptyChunks
    /\ n_results' = {}
    /\ sent' = <<>>
    /\ query_response' = NoResponse
    /\ vector_results' = EmptyQueryResult
    /\ locals' = NoLocals
    /\ outcome' = NoOutcome
    /\ raised_in' = "none"
    /\ route_result' = NoResult
    /\ UNCHANGED retriever
    /\ UNCHANGED <<engine_vars, formatter_vars, ctor_vars, scorer_vars, pool_vars, workflow_vars>>

\* The caller has the result; the retriever, its wrapper and the locals of
\* the call are dropped, and the next request can come.
RouteDone ==
    /\ pc = "done"
    /\ pc' = "idle"
    /\ query' = <<>>
    /\ top_k' = 1
    /\ use_rrf' = TRUE
    /\ vector_weight' = 70
    /\ rrf_k' = 60
    /\ enable_contextual' = TRUE
    /\ get_response' = NoResponse
    /\ all_chunks' = EmptyChunks
    /\ n_results' = {}
    /\ sent' = <<>>
    /\ again' = FALSE
    /\ query_response' = NoResponse
    /\ vector_results' = EmptyQueryResult
    /\ locals' = NoLocals
    /\ outcome' = NoOutcome
    /\ raised_in' = "none"
    /\ route_result' = NoResult
    /\ UNCHANGED collection_name
    /\ UNCHANGED <<engine_vars, formatter_vars, ctor_vars, scorer_vars, pool_vars, workflow_vars>>

\* ============================================================ AIEngine
Timeout == 30

EngineInit ==
    /\ eng_pc = "idle"
    /\ response = "None"
    /\ response_for = 0
    /\ corr_id = 0
    /\ elapsed = 0
    /\ published = <<>>
    /\ callback_queue = <<>>
    /\ answered = {}
    /\ eng_result = NoResponse

Operations == {"get_all", "query", "list_collections"}

\* query_vectordb up to the wait loop (lines 103-136): a fresh correlation
\* id, the request published once; basic_publish raises when the connection
\* is lost.
QueryVectordbSend ==
    /\ eng_pc = "idle"
    /\ Len(published) < MaxCalls
    /\ response' = "None"
    /\ response_for' = 0
    /\ corr_id' = Len(published) + 1
    /\ elapsed' = 0
    /\ \E operation \in Operations :
         \/ /\ published' = Append(published,
                                   [correlation_id |-> corr_id', operation |-> operation])
            /\ eng_pc' = "waiting"
            /\ UNCHANGED eng_result
         \/ /\ eng_pc' = "ended"
            /\ eng_result' = TransportError
            /\ UNCHANGED published
    /\ UNCHANGED <<callback_queue, answered>>
    /\ UNCHANGED <<route_vars, formatter_vars, ctor_vars, scorer_vars, pool_vars, workflow_vars>>

\* The VectorDB service answers a request: a reply with the correlation id
\* of the request arrives in the callback queue, at any time.
ServiceReply ==
    /\ \E i \in 1..Len(published), body \in Bodies :
          /\ published[i].correlation_id \notin answered
          /\ answered' = answered \cup {published[i].correlation_id}
          /\ callback_queue' = Append(callback_queue,
                 [correlation_id |-> published[i].correlation_id, body |-> body])
    /\ UNCHANGED <<eng_pc, response, response_for, corr_id, elapsed, published, eng_result>>
    /\ UNCHANGED <<route_vars, formatter_vars, ctor_vars, scorer_vars, pool_vars, workflow_vars>>

\* A callback that takes every message.
on_response_unchecked(current, correlation_id, message) == message.body

\* on_response: if self.corr_id == props.correlation_id: self.response = body
on_response(current, correlation_id, message) ==
    IF correlation_id = message.correlation_id THEN message.body ELSE current

\* process_data_events(): on_response for every message waiting, in order.
RECURSIVE Dispatch(_, _, _)
Dispatch(current, correlation_id, messages) ==
    IF messages = <<>> THEN current
    ELSE Dispatch(on_response(current, correlation_id, Head(messages)),
                  correlation_id, Tail(messages))

\* The waiting messages with, in place of each body, the correlation id the
\* message carries: what on_response stores of them tells which message
\* self.response was taken from.
Senders(messages) ==
    [i \in 1..Len(messages) |->
        [correlation_id |-> messages[i].correlation_id,
         body |-> messages[i].correlation_id]]

\* if time.time() - start_time > timeout
TimeoutElapsed(seconds) == seconds > Timeout

\* A wait loop that answers the timeout by publishing the request once more
\* and waiting again.
WaitLoopResending ==
    /\ eng_pc = "waiting"
    /\ response = "None"
    /\ response' = Dispatch(response, corr_id, callback_queue)
    /\ response_for' = Dispatch(response_for, corr_id, Senders(callback_queue))
    /\ callback_queue' = <<>>
    /\ IF TimeoutElapsed(elapsed)
       THEN /\ published' = Append(published,
                    [correlation_id |-> corr_id, operation |-> "query"])
            /\ elapsed' = 0
       ELSE /\ \E passed \in {0, TickSeconds} : elapsed' = elapsed + passed
            /\ UNCHANGED published
    /\ UNCHANGED <<eng_pc, eng_result, corr_id, answered>>
    /\ UNCHANGED <<route_vars, formatter_vars, ctor_vars, scorer_vars, pool_vars, workflow_vars>>

\* One iteration of the wait loop (lines 137-141), entered while
\* self.response is None: the waiting messages are dispatched, then the
\* timeout is checked, then the loop sleeps.
WaitLoop ==
    /\ eng_pc = "waiting"
    /\ response = "None"
    /\ \/ /\ response' = Dispatch(response, corr_id, callback_queue)
          /\ response_for' = Dispatch(response_for, corr_id, Senders(callback_queue))
          /\ callback_queue' = <<>>
          /\ IF TimeoutElapsed(elapsed)
             THEN /\ eng_pc' = "ended"
                  /\ eng_result' = TimedOut
                  /\ UNCHANGED elapsed
             ELSE /\ \E passed \in {0, TickSeconds} : elapsed' = elapsed + passed
                  /\ UNCHANGED <<eng_pc, eng_result>>
       \/ /\ eng_pc' = "ended"                 \* process_data_events raises
          /\ eng_result' = TransportError
          /\ UNCHANGED <<response, response_for, callback_queue, elapsed>>
    /\ UNCHANGED <<corr_id, published, answered>>
    /\ UNCHANGED <<route_vars, formatter_vars, ctor_vars, scorer_vars, pool_vars, workflow_vars>>

\* The loop ends with a response: it is parsed and returned (lines 143-148).
ParseAndReturn ==
    /\ eng_pc = "waiting"
    /\ response # "None"
    /\ eng_pc' = "ended"
    /\ eng_result' = ParseResponse(response)
    /\ UNCHANGED <<response, response_for, corr_id, elapsed, published, callback_queue,
                   answered>>
    /\ UNCHANGED <<route_vars, formatter_vars, ctor_vars, scorer_vars, pool_vars, workflow_vars>>

\* The caller has the outcome and may call again.
EngineCallOver ==
    /\ eng_pc = "ended"
    /\ eng_pc' = "idle"
    /\ UNCHANGED <<response, response_for, corr_id, elapsed, published, callback_queue,
                   answered, eng_result>>
    /\ UNCHANGED <<route_vars, formatter_vars, ctor_vars, scorer_vars, pool_vars, workflow_vars>>

\* ===================================================== text formatting
MaxTextLen == 4

FormatterPieces ==
    {"=40", "=80", "NL", "SP", "a", "Page 1 o", "f 2", "Image: x",
     "Content Type: t", "Page Number: 3"}

Texts == SeqsUpTo(FormatterPieces, MaxTextLen)

FormatterInit ==
    /\ fmt_pc = "idle"
    /\ raw_text = <<>>
    /\ cleaned_once = <<>>
    /\ cleaned_twice = <<>>

\* cleaned_text = self.formatter.clean_text_content(raw_text)
CleanResultText ==
    /\ fmt_pc = "idle"
    /\ \E t \in Texts :
          /\ raw_text' = t
          /\ cleaned_once' = clean_text_content(t)
    /\ fmt_pc' = "cleaned"
    /\ UNCHANGED cleaned_twice
    /\ UNCHANGED <<route_vars, engine_vars, ctor_vars, scorer_vars, pool_vars, workflow_vars>>

\* clean_search_result: the text of a result is cleaned again,
\*   if "text" in result and result["text"]:
\*       result["text"] = ContentFormatter.clean_text_content(result["text"])
CleanSearchResult ==
    /\ fmt_pc = "cleaned"
    /\ cleaned_twice' = IF cleaned_once # <<>>
                        THEN clean_text_content(cleaned_once)
                        ELSE cleaned_once
    /\ fmt_pc' = "recleaned"
    /\ UNCHANGED <<raw_text, cleaned_once>>
    /\ UNCHANGED <<route_vars, engine_vars, ctor_vars, scorer_vars, pool_vars, workflow_vars>>

\* The result is handed on; the next text can come.
FormatterDone ==
    /\ fmt_pc = "recleaned"
    /\ fmt_pc' = "idle"
    /\ raw_text' = <<>>
    /\ cleaned_once' = <<>>
    /\ cleaned_twice' = <<>>
    /\ UNCHANGED <<route_vars, engine_vars, ctor_vars, scorer_vars, pool_vars, workflow_vars>>

\* ================================================ HybridRetriever.__init__
MaxListed == 3

\* A collection or project name is the sequence of its parts between "_":
\* <<"proj", "pdf", "content">> is "proj_pdf_content".
Projects == {<<"proj">>, <<"other">>, <<"proj", "a">>}

CollectionNames ==
    {<<"proj", "pdf", "content">>, <<"proj", "docs">>, <<"proj2", "docs">>,
     <<"proj", "a", "pdf", "content">>}

\* f"{project_name}_pdf_content"
DefaultCollectionName(project) == project \o <<"pdf", "content">>

\* c.startswith(f"{project_name}_")
StartsWithProject(c, project) ==
    Len(c) > Len(project) /\ SubSeq(c, 1, Len(project)) = project

\* Any collection that has the project name as one of its parts.
ProjectCollectionsContaining(collections, project) ==
    SelectSeq(collections, LAMBDA c : \E i \in 1..Len(c) : <<c[i]>> = project)

\* project_collections = [c for c in collections if c.startswith(...)]
ProjectCollections(collections, project) ==
    SelectSeq(collections, LAMBDA c : StartsWithProject(c, project))

\* ChromaDBClientWrapper.list_collections, given what query_vectordb did and
\* the "collections" of the reply (hasResult: the reply has that entry).
ChromaDBClientWrapper_list_collections(reply, collections) ==
    IF reply.raised THEN Raise(reply.error)
    ELSE IF ~reply.isdict THEN Raise("AttributeError")
    ELSE IF reply.status = "success"
         THEN Return(IF reply.hasResult THEN collections ELSE <<>>)
    ELSE Return(<<>>)

ConstructInit ==
    /\ ctor_pc = "idle"
    /\ project_name = <<>>
    /\ default_get = "none"
    /\ listed = <<>>
    /\ self_collection_name = <<>>
    /\ ctor_error = ""

\* HybridRetriever(scope_manager, project_name, ...): lines 35-42.
ConstructStart ==
    /\ ctor_pc = "idle"
    /\ \E p \in Projects :
          /\ project_name' = p
          /\ self_collection_name' = DefaultCollectionName(p)
    /\ ctor_pc' = "get_default"
    /\ UNCHANGED <<default_get, listed, ctor_error>>
    /\ UNCHANGED <<route_vars, engine_vars, formatter_vars, scorer_vars, pool_vars, workflow_vars>>

\* scope_manager.client.get_collection(name=self.collection_name, ...)
\* returns the collection or raises (lines 43-47).
GetDefaultCollection ==
    /\ ctor_pc = "get_default"
    /\ \/ /\ default_get' = "ok"
          /\ ctor_pc' = "constructed"
       \/ /\ default_get' = "raised"
          /\ ctor_pc' = "list"
    /\ UNCHANGED <<project_name, listed, self_collection_name, ctor_error>>
    /\ UNCHANGED <<route_vars, engine_vars, formatter_vars, scorer_vars, pool_vars, workflow_vars>>

\* The except branch up to the second get_collection (lines 48-55).
ListCollections ==
    /\ ctor_pc = "list"
    /\ \E reply \in EngineOutcomes :
       \E collections \in IF reply.hasResult
                          THEN SeqsUpTo(CollectionNames, MaxListed) ELSE {<<>>} :
          LET got == ChromaDBClientWrapper_list_collections(reply, collections)
              project_collections == ProjectCollections(got.value, project_name)
          IN IF got.kind = "raise"
             THEN /\ ctor_error' = got.error
                  /\ ctor_pc' = "failed"
                  /\ UNCHANGED <<listed, self_collection_name>>
             ELSE /\ listed' = got.value
                  /\ IF project_collections = <<>>
                     THEN /\ ctor_error' = "No collections found for project"
                          /\ ctor_pc' = "failed"
                          /\ UNCHANGED self_collection_name
                     ELSE /\ self_collection_name' = project_collections[1]
                          /\ ctor_pc' = "get_fallback"
                          /\ UNCHANGED ctor_error
    /\ UNCHANGED <<project_name, default_get>>
    /\ UNCHANGED <<route_vars, engine_vars, formatter_vars, scorer_vars, pool_vars, workflow_vars>>

\* The second get_collection, outside any handler (lines 56-60).
GetFallbackCollection ==
    /\ ctor_pc = "get_fallback"
    /\ \/ /\ ctor_pc' = "constructed"
          /\ UNCHANGED ctor_error
       \/ /\ ctor_pc' = "failed"
          /\ ctor_error' = "get_collection error"
    /\ UNCHANGED <<project_name, default_get, listed, self_collection_name>>
    /\ UNCHANGED <<route_vars, engine_vars, formatter_vars, scorer_vars, pool_vars, workflow_vars>>

\* The constructor has returned or raised; the next construction can come.
ConstructDone ==
    /\ ctor_pc \in {"constructed", "failed"}
    /\ ctor_pc' = "idle"
    /\ project_name' = <<>>
    /\ default_get' = "none"
    /\ listed' = <<>>
    /\ self_collection_name' = <<>>
    /\ ctor_error' = ""
    /\ UNCHANGED <<route_vars, engine_vars, formatter_vars, scorer_vars, pool_vars, workflow_vars>>

\* ===================================================== lexical scoring
MaxDocuments == 3

\* Documents: without text, of punctuation only, of one and of three words.
ScorerDocuments == {<<>>, <<",">>, <<"grid">>, <<"Power", "grid", "grid">>}

ScorerContexts == {<<>>, <<"grid">>}

ScorerQueries == Queries \cup {<<>>}

\* The ids of the documents: as many as documents.
ScorerIds(documents) == SubSeq(ChunkIds, 1, Len(documents))

ScorerInit ==
    /\ sc_pc = "idle"
    /\ sc_query = <<>>
    /\ sc_documents = <<>>
    /\ sc_contexts = <<>>
    /\ sc_contextual = FALSE
    /\ sc_outcome = [kind |-> "none"]

\* _calculate_keyword_scores(query, documents, doc_ids)
ScoreKeywords ==
    /\ sc_pc = "idle"
    /\ \E q \in ScorerQueries, documents \in SeqsUpTo(ScorerDocuments, MaxDocuments) :
          /\ sc_query' = q
          /\ sc_documents' = documents
          /\ sc_outcome' = ScorerOutcome(
                 QueryTerms(q), [i \in 1..Len(documents) |-> _tokenize(documents[i])],
                 ScorerIds(documents), Len(documents))
    /\ sc_contexts' = <<>>
    /\ sc_contextual' = FALSE
    /\ sc_pc' = "scored"
    /\ UNCHANGED <<route_vars, engine_vars, formatter_vars, ctor_vars, pool_vars, workflow_vars>>

\* _calculate_contextual_keyword_scores(query, documents, doc_ids, contexts)
ScoreContextualKeywords ==
    /\ sc_pc = "idle"
    /\ \E q \in ScorerQueries, documents \in SeqsUpTo(ScorerDocuments, MaxDocuments),
          enable \in BOOLEAN :
       \E contexts \in {<<>>} \cup [1..Len(documents) -> ScorerContexts] :
          /\ sc_query' = q
          /\ sc_documents' = documents
          /\ sc_contexts' = contexts
          /\ sc_contextual' = enable
          /\ sc_outcome' = ScorerOutcome(
                 QueryTerms(q), ContextualScorerTokens(documents, contexts, enable),
                 ScorerIds(documents), Len(documents))
    /\ sc_pc' = "scored"
    /\ UNCHANGED <<route_vars, engine_vars, formatter_vars, ctor_vars, pool_vars, workflow_vars>>

\* The caller has the scores.
ScorerDone ==
    /\ sc_pc = "scored"
    /\ sc_pc' = "idle"
    /\ sc_query' = <<>>
    /\ sc_documents' = <<>>
    /\ sc_contexts' = <<>>
    /\ sc_contextual' = FALSE
    /\ sc_outcome' = [kind |-> "none"]
    /\ UNCHANGED <<route_vars, engine_vars, formatter_vars, ctor_vars, pool_vars, workflow_vars>>

\* ====================================================== ThreadManager
\* The requests of the model; each has its own taskId.
MaxRequests == 3

\* self.executor._max_workers (10 by default; small here).
MaxWorkers == 2

Requests == 1..MaxRequests

\* running_tasks: the tasks whose status is 'processing'.
RunningTasks(tasks) == {t \in DOMAIN tasks : tasks[t] = "processing"}

\* can_accept_task: running_tasks < self.executor._max_workers
can_accept_task(tasks) == Cardinality(RunningTasks(tasks)) < MaxWorkers

PoolInit ==
    /\ req_pc = [r \in Requests |-> "idle"]
    /\ active_tasks = [r \in Requests |-> "absent"]

\* classify_document up to the download (lines 79-97): the capacity check,
\* then the request awaits the download; 503 without capacity.
CheckCapacity(r) ==
    /\ req_pc[r] = "idle"
    /\ req_pc' = [req_pc EXCEPT ![r] = IF can_accept_task(active_tasks)
                                        THEN "downloading" ELSE "rejected"]
    /\ UNCHANGED active_tasks
    /\ UNCHANGED <<route_vars, engine_vars, formatter_vars, ctor_vars, scorer_vars, workflow_vars>>

\* The awaited download ends (lines 97-106): with the file, or failed (500).
DownloadEnds(r) ==
    /\ req_pc[r] = "downloading"
    /\ \E next \in {"downloaded", "download_failed"} :
          req_pc' = [req_pc EXCEPT ![r] = next]
    /\ UNCHANGED active_tasks
    /\ UNCHANGED <<route_vars, engine_vars, formatter_vars, ctor_vars, scorer_vars, workflow_vars>>

\* thread_manager.add_task and submit_task (lines 112-131): the task is
\* recorded as 'processing' and handed to the pool.
AddAndSubmitTask(r) ==
    /\ req_pc[r] = "downloaded"
    /\ active_tasks' = [active_tasks EXCEPT ![r] = "processing"]
    /\ req_pc' = [req_pc EXCEPT ![r] = "submitted"]
    /\ UNCHANGED <<route_vars, engine_vars, formatter_vars, ctor_vars, scorer_vars, workflow_vars>>

\* _run_task: the task ran in the pool and ended, completed or failed.
RunTaskEnds(r) ==
    /\ req_pc[r] = "submitted"
    /\ \E status \in {"completed", "failed"} :
          active_tasks' = [active_tasks EXCEPT ![r] = status]
    /\ req_pc' = [req_pc EXCEPT ![r] = "finished"]
    /\ UNCHANGED <<route_vars, engine_vars, formatter_vars, ctor_vars, scorer_vars, workflow_vars>>

\* ============================================ classification workflow
\* The runs of the model, each a workflow object of its own task.
MaxRuns == 2

Runs == 1..MaxRuns

\* A status update: the taskFriendlyName and the taskName sent.
Update(taskFriendlyName, task_name) ==
    [taskFriendlyName |-> taskFriendlyName, taskName |-> task_name]

\* What a step that failed sends before it returns through
\* _handle_workflow_error: one update "failed" with taskName "task_failed"
\* (_handle_workflow_error itself sends no update, lines 508-541).
FailureUpdates == <<Update("failed", "task_failed")>>

WorkflowInit ==
    /\ wf_pc = [w \in Runs |-> "start"]
    /\ wf_small = [w \in Runs |-> FALSE]
    /\ wf_updates = [w \in Runs |-> <<>>]
    /\ wf_reports = [w \in Runs |-> 0]
    /\ wf_result = [w \in Runs |-> "none"]

\* The run sends updates and goes to a step.
SendAndGo(w, updates, next) ==
    /\ wf_updates' = [wf_updates EXCEPT ![w] = @ \o updates]
    /\ wf_pc' = [wf_pc EXCEPT ![w] = next]

\* The run sends updates and returns a value of the given status.
SendAndReturn(w, updates, status) ==
    /\ SendAndGo(w, updates, "returned")
    /\ wf_result' = [wf_result EXCEPT ![w] = status]

\* The initial status update (lines 220-225); notify_backend_status
\* catches every exception, so no update raises.
WorkflowStart(w) ==
    /\ wf_pc[w] = "start"
    /\ SendAndGo(w, <<Update("processing", "workflow_start")>>, "content_extraction")
    /\ UNCHANGED <<wf_small, wf_reports, wf_result>>
    /\ UNCHANGED <<route_vars, engine_vars, formatter_vars, ctor_vars, scorer_vars, pool_vars>>

\* Step 1 (lines 229-289): extract_document_content raises, reports no
\* success, or gives the content, small or not.
ContentExtraction(w) ==
    /\ wf_pc[w] = "content_extraction"
    /\ \E extraction \in {"raises", "no_success", "small", "large"} :
          IF extraction \in {"raises", "no_success"}
          THEN /\ SendAndReturn(w, <<Update("processing", "content_extraction")>>
                                      \o FailureUpdates, "failed")
               /\ UNCHANGED wf_small
          ELSE /\ SendAndGo(w, <<Update("processing", "content_extraction"),
                                 Update("processing", "content_extraction_completed")>>,
                            "fast_bypass_check")
               /\ wf_small' = [wf_small EXCEPT ![w] = extraction = "small"]
               /\ UNCHANGED wf_result
    /\ UNCHANGED wf_reports
    /\ UNCHANGED <<route_vars, engine_vars, formatter_vars, ctor_vars, scorer_vars, pool_vars>>

\* A fast bypass that reports the completion before it saves the result.
FastBypassCheckReportBeforeSave(w) ==
    /\ wf_pc[w] = "fast_bypass_check"
    /\ IF wf_small[w]
       THEN \E saved \in BOOLEAN :
               /\ wf_reports' = [wf_reports EXCEPT ![w] = @ + 1]
               /\ IF saved
                  THEN SendAndReturn(w, <<Update("processing", "fast_bypass_check"),
                                          Update("completed", "fast_bypass_completed")>>,
                                     "completed")
                  ELSE /\ SendAndGo(w, <<Update("processing", "fast_bypass_check")>>,
                                    "agent_classification")
                       /\ UNCHANGED wf_result
       ELSE /\ SendAndGo(w, <<Update("processing", "fast_bypass_check"),
                              Update("processing", "fast_bypass_skipped")>>,
                         "agent_classification")
            /\ UNCHANGED <<wf_reports, wf_result>>
    /\ UNCHANGED wf_small
    /\ UNCHANGED <<route_vars, engine_vars, formatter_vars, ctor_vars, scorer_vars, pool_vars>>

\* Step 2 (lines 291-360).  A small document takes the fast bypass: the
\* result is built and saved, the completion is reported, "completed" is
\* sent and the run returns; when building or saving raises, the handler
\* only logs and the run goes on to the full analysis, nothing reported.
FastBypassCheck(w) ==
    /\ wf_pc[w] = "fast_bypass_check"
    /\ IF wf_small[w]
       THEN \E saved \in BOOLEAN :
               IF saved
               THEN /\ wf_reports' = [wf_reports EXCEPT ![w] = @ + 1]
                    /\ SendAndReturn(w, <<Update("processing", "fast_bypass_check"),
                                           Update("completed", "fast_bypass_completed")>>,
                                      "completed")
               ELSE /\ SendAndGo(w, <<Update("processing", "fast_bypass_check")>>,
                                 "agent_classification")
                    /\ UNCHANGED <<wf_reports, wf_result>>
       ELSE /\ SendAndGo(w, <<Update("processing", "fast_bypass_check"),
                              Update("processing", "fast_bypass_skipped")>>,
                         "agent_classification")
            /\ UNCHANGED <<wf_reports, wf_result>>
    /\ UNCHANGED wf_small
    /\ UNCHANGED <<route_vars, engine_vars, formatter_vars, ctor_vars, scorer_vars, pool_vars>>

\* Step 3 (lines 362-431): classify_document raises, returns a status other
\* than "completed", or completes.
AgentClassification(w) ==
    /\ wf_pc[w] = "agent_classification"
    /\ \E classification \in {"raises", "not_completed", "completed"} :
          IF classification = "completed"
          THEN /\ SendAndGo(w, <<Update("processing", "agent_classification"),
                                 Update("processing", "classification_completed")>>,
                            "finalization")
               /\ UNCHANGED wf_result
          ELSE SendAndReturn(w, <<Update("processing", "agent_classification")>>
                                   \o FailureUpdates, "failed")
    /\ UNCHANGED <<wf_small, wf_reports>>
    /\ UNCHANGED <<route_vars, engine_vars, formatter_vars, ctor_vars, scorer_vars, pool_vars>>

\* Step 4 (lines 433-493): the result is built and saved, the completion
\* is reported (notify_backend_completion catches every exception),
\* "completed" is sent; when building or saving raises, "failed" is sent.
Finalization(w) ==
    /\ wf_pc[w] = "finalization"
    /\ \E saved \in BOOLEAN :
          IF saved
          THEN /\ wf_reports' = [wf_reports EXCEPT ![w] = @ + 1]
               /\ SendAndReturn(w, <<Update("processing", "finalization"),
                                      Update("completed", "workflow_completed")>>,
                                 "completed")
          ELSE /\ SendAndReturn(w, <<Update("processing", "finalization")>>
                                      \o FailureUpdates, "failed")
               /\ UNCHANGED wf_reports
    /\ UNCHANGED wf_small
    /\ UNCHANGED <<route_vars, engine_vars, formatter_vars, ctor_vars, scorer_vars, pool_vars>>

\* ============================================================== specs
\* The search request path, with the gateway calls as single steps.
Init == RouteInit /\ EngineInit /\ FormatterInit /\ ConstructInit /\ ScorerInit
            /\ PoolInit /\ WorkflowInit

Next == RouteStart \/ CollectionGet \/ CollectionQuery \/ RetrieveFuse \/ RetrieveAgain
           \/ RouteDone

Spec == Init /\ [][Next]_vars

\* One AIEngine serving successive calls.
EngineNext ==
    QueryVectordbSend \/ ServiceReply \/ WaitLoop \/ ParseAndReturn \/ EngineCallOver

SpecEngine == Init /\ [][EngineNext]_vars

\* Texts through clean_text_content, once and again.
FormatterNext == CleanResultText \/ CleanSearchResult \/ FormatterDone

SpecFormatter == Init /\ [][FormatterNext]_vars

\* Constructions of a HybridRetriever.
ConstructNext ==
    ConstructStart \/ GetDefaultCollection \/ ListCollections
        \/ GetFallbackCollection \/ ConstructDone

SpecConstruct == Init /\ [][ConstructNext]_vars

\* Calls of the two lexical scorers.
ScorerNext == ScoreKeywords \/ ScoreContextualKeywords \/ ScorerDone

SpecScorer == Init /\ [][ScorerNext]_vars

\* Concurrent classify-document requests on one ThreadManager.
PoolNext ==
    \E r \in Requests :
        CheckCapacity(r) \/ DownloadEnds(r) \/ AddAndSubmitTask(r) \/ RunTaskEnds(r)

SpecPool == Init /\ [][PoolNext]_vars

\* Runs of the classification workflow, one per submitted task.
WorkflowNext ==
    \E w \in Runs :
        WorkflowStart(w) \/ ContentExtraction(w) \/ FastBypassCheck(w)
            \/ AgentClassification(w) \/ Finalization(w)

SpecWorkflow == Init /\ [][WorkflowNext]_vars

\* ========================================================= properties
\* retrieve() has returned a value to the route.
Returned == pc = "done" /\ outcome.kind = "return"

\* The result list of the returned value.
Results == outcome.value.results

\* The keys of combined_scores: the candidates of the fusion.
Candidates == DOMAIN locals.combined_scores

\* The gateway call got a well-formed success reply.
Succeeded(reply) ==
    ~reply.raised /\ reply.isdict /\ reply.status = "success" /\ reply.hasResult

\* The gateway call was made and did not get a well-formed success reply:
\* error reply, timeout, unparseable or malformed reply, lost connection.
Failed(reply) == reply # NoResponse /\ ~Succeeded(reply)

\* ------------------------------------------------------------------ C1
\* C1, as stated: retrieve() never lets an exception leave it; whatever
\* goes wrong inside, the call ends by returning a value.
C1_RetrieveNeverRaises == outcome.kind # "raise"

\* C1, as the code has it: retrieve() has no handler and lets exceptions
\* out; its only caller, query_vector_store_sync, catches every one of them
\* and returns {status: "error", error: str(e)}, and hands a returned value
\* on unchanged.
C1_RouteCatchesRetrieve ==
    pc = "done" =>
        /\ route_result.status \in {"success", "error"}
        /\ outcome.kind = "raise" =>
              /\ route_result.status = "error"
              /\ route_result.error = outcome.error
        /\ outcome.kind = "return" => route_result = outcome.value

\* An exception left retrieve() and the route turned it into the error value.
C1_Witness ==
    /\ pc = "done"
    /\ outcome.kind = "raise"
    /\ raised_in \in {"retrieve", "format"}
    /\ route_result.status = "error"

\* ------------------------------------------------------------------ C2
\* C2: no gateway operation raises, and every value a gateway operation
\* returns holds the keys retrieve() reads: ids, documents and metadatas
\* of get(), ids and distances of query().
C2_GatewayNeverRaisesKeysPresent ==
    /\ raised_in \notin {"get", "query"}
    /\ pc \in {"query", "fuse"} => {"ids", "documents", "metadatas"} \subseteq all_chunks.has
    /\ pc = "fuse" => {"ids", "distances"} \subseteq vector_results.has

\* ------------------------------------------------------------------ C3
\* C3: every call of query_vectordb ends by returning a value to its
\* caller: the reply, or the error value of the timeout.
C3_CallReturnsValue == eng_pc = "ended" => ~eng_result.raised

\* ------------------------------------------------------------------ C4
\* C4: with an empty corpus retrieve() returns status "success", an empty
\* result list and count 0, in both fusion modes and for every top_k.
C4_EmptyCorpusSucceeds ==
    (/\ pc = "done"
     /\ get_response # NoResponse
     /\ raised_in # "get"
     /\ {"ids", "documents", "metadatas"} \subseteq all_chunks.has
     /\ all_chunks.ids = <<>>
     /\ all_chunks.documents = <<>>)
    => /\ outcome.kind = "return"
       /\ outcome.value.status = "success"
       /\ outcome.value.results = <<>>
       /\ outcome.value.count = 0

\* ------------------------------------------------------------------ C5
\* C5: when the corpus fetch fails, retrieve() works on an empty corpus:
\* the lexical score map is empty and the call returns status "success"
\* with an empty result list, whatever the nearest-neighbour query does.
C5_FetchFailureDegrades ==
    (pc = "done" /\ Failed(get_response))
    => /\ all_chunks.ids = <<>>
       /\ locals.keyword_scores = [k \in {} |-> 0]
       /\ outcome.kind = "return"
       /\ outcome.value.status = "success"
       /\ outcome.value.results = <<>>

\* ------------------------------------------------------------------ C6
\* C6: when the nearest-neighbour query fails and the corpus fetch
\* succeeds, retrieve() does not fail and its results are in
\* non-increasing order of keyword_score, in both fusion modes.
C6_LexicalOrderOnQueryFailure ==
    (pc = "done" /\ Succeeded(get_response) /\ Failed(query_response))
    => /\ outcome.kind = "return"
       /\ \A i, j \in 1..Len(Results) :
             i < j => Results[i].keyword_score >= Results[j].keyword_score

\* ------------------------------------------------------------------ C7
\* C7, as stated: the result list has min(top_k, number of candidates)
\* entries.
C7_ResultCountIsMin ==
    Returned => Len(Results) = Min2(top_k, Cardinality(Candidates))

\* C7, as the code has it: top_ids holds the min(top_k, number of
\* candidates) candidates of highest combined score, and the result list
\* has one entry for each id of top_ids that is an id of the fetched
\* corpus, in the order of top_ids; so it has min(top_k, number of
\* candidates) entries when every id of the neighbour list is a corpus id,
\* and never more.
C7_ResultCountIsEmittedTopIds ==
    Returned =>
        LET top_ids == locals.top_ids
            kept == {i \in 1..Len(top_ids) : top_ids[i] \in Range(all_chunks.ids)}
        IN /\ Len(top_ids) = Min2(top_k, Cardinality(Candidates))
           /\ Range(top_ids) \subseteq Candidates
           /\ Cardinality(Range(top_ids)) = Len(top_ids)
           /\ \A id \in Range(top_ids) : \A other \in Candidates \ Range(top_ids) :
                 locals.combined_scores[id] >= locals.combined_scores[other]
           /\ Len(Results) = Cardinality(kept)
           /\ [i \in 1..Len(Results) |-> Results[i].id] = Emitted(top_ids, all_chunks)
           /\ Len(Results) <= Min2(top_k, Cardinality(Candidates))
           /\ Range(locals.vector_ids) \subseteq Range(all_chunks.ids)
                 => Len(Results) = Min2(top_k, Cardinality(Candidates))

\* A neighbour that the fetched corpus does not hold is among the top
\* candidates and gets no entry, next to one that does.
C7_Witness ==
    /\ Returned
    /\ Len(Results) >= 1
    /\ Len(Results) < Min2(top_k, Cardinality(Candidates))

\* ------------------------------------------------------------------ C8
\* C8: of two results, the one of strictly greater combined score has a
\* distance that is not greater.
C8_DistanceInvertsScore ==
    Returned =>
        \A i, j \in 1..Len(Results) :
            Results[i].combined_score > Results[j].combined_score
                => Results[i].distance <= Results[j].distance

\* Two results of different combined scores, the better one nearer.
C8_Witness ==
    /\ Returned
    /\ \E i, j \in 1..Len(Results) :
          /\ Results[i].combined_score > Results[j].combined_score
          /\ Results[i].distance < Results[j].distance

\* ------------------------------------------------------------------ C9
\* C9: every RRF score s satisfies 0 < s <= 2 / rrf_k, and s = 2 / rrf_k
\* only for an id of rank 0 in both rankings. (Scores are numerators over
\* locals.rrf_den.)
C9_RrfScoreBounds ==
    (pc = "done" /\ locals.fused /\ use_rrf) =>
        \A id \in Candidates :
            LET s == locals.combined_scores[id]
            IN /\ s > 0
               /\ s * rrf_k <= 2 * locals.rrf_den
               /\ s * rrf_k = 2 * locals.rrf_den =>
                     /\ id \in DOMAIN locals.vector_ranks
                     /\ locals.vector_ranks[id] = 0
                     /\ id \in DOMAIN locals.keyword_ranks
                     /\ locals.keyword_ranks[id] = 0

\* ----------------------------------------------------------------- C10
\* Scenario B: corpus c1, c2, c3; rrf_k = 60; neighbour ranking c1, c3;
\* lexical ranking c1, c3, c2.
ScenarioB ==
    /\ pc = "done"
    /\ locals.fused
    /\ use_rrf
    /\ rrf_k = 60
    /\ all_chunks.ids = <<"c1", "c2", "c3">>
    /\ locals.vector_ids = <<"c1", "c3">>
    /\ DOMAIN locals.keyword_ranks = {"c1", "c2", "c3"}
    /\ locals.keyword_ranks["c1"] = 0
    /\ locals.keyword_ranks["c3"] = 1
    /\ locals.keyword_ranks["c2"] = 2

\* C10, as stated: in Scenario B combined[c1] = 1/60 + 1/60,
\* combined[c3] = 1/61 + 1/61 and combined[c2] = 1/63 + 1/63.
C10_ScenarioBAsStated ==
    ScenarioB =>
        LET den == locals.rrf_den
            combined == locals.combined_scores
        IN /\ den % 60 = 0 /\ den % 61 = 0 /\ den % 63 = 0
           /\ combined["c1"] = (den \div 60) + (den \div 60)
           /\ combined["c3"] = (den \div 61) + (den \div 61)
           /\ combined["c2"] = (den \div 63) + (den \div 63)

\* C10, as the code has it: combined[c1] = 1/60 + 1/60,
\* combined[c3] = 1/61 + 1/61 and combined[c2] = 1/(3+60) + 1/(2+60):
\* c2 has the fallback rank 3 in the neighbour ranking and rank 2 in the
\* lexical ranking. The order is c1, c3, c2.
C10_ScenarioBScores ==
    ScenarioB =>
        LET den == locals.rrf_den
            combined == locals.combined_scores
        IN /\ den % 60 = 0 /\ den % 61 = 0 /\ den % 62 = 0 /\ den % 63 = 0
           /\ combined["c1"] = (den \div 60) + (den \div 60)
           /\ combined["c3"] = (den \div 61) + (den \div 61)
           /\ combined["c2"] = (den \div 63) + (den \div 62)
           /\ combined["c1"] > combined["c3"]
           /\ combined["c3"] > combined["c2"]
           /\ top_k = 2 => locals.top_ids = <<"c1", "c3">>

\* Scenario B has been computed, with top_k = 2.
C10_Witness == ScenarioB /\ top_k = 2 /\ Returned /\ Len(Results) = 2

\* ----------------------------------------------------------------- C11
\* The ids of the result list, in order.
ResultIds == [i \in 1..Len(Results) |-> Results[i].id]

\* Scenario A: corpus c1 "power grid analysis", c2 "cooking recipe book",
\* c3 "electrical power systems"; query "power grid"; weighted fusion with
\* vector_weight 0.7; neighbours c1, c3 at distances 0.1, 0.3.
ScenarioA ==
    /\ pc = "done"
    /\ ~use_rrf
    /\ vector_weight = 70
    /\ query = <<"power", "grid">>
    /\ all_chunks.ids = <<"c1", "c2", "c3">>
    /\ vector_results = QueryResult(<<"c1", "c3">>, <<Scale \div 10, 3 * (Scale \div 10)>>)

\* C11: in Scenario A retrieve() returns, c1 is the first result, c3 comes
\* after c1 when top_k leaves room for it, and c2 is absent or after c3
\* (it is absent: its keyword score is 0, under the threshold).
C11_ScenarioARanking ==
    ScenarioA =>
        /\ outcome.kind = "return"
        /\ ResultIds = Prefix(<<"c1", "c3">>, top_k)
        /\ \A i, j \in 1..Len(Results) :
              /\ (Results[i].id = "c1" /\ Results[j].id = "c3") => i < j
              /\ (Results[i].id = "c3" /\ Results[j].id = "c2") => i < j
        /\ locals.combined_scores["c1"] > locals.combined_scores["c3"]

\* Scenario A has been computed with room for both neighbours.
C11_Witness == ScenarioA /\ Returned /\ top_k = 2 /\ ResultIds = <<"c1", "c3">>

\* ----------------------------------------------------------------- C12
\* The token lists scored in this call, and the query terms.
ScoredTokens == DocTokens(enable_contextual, all_chunks)

\* No query term occurs in any scored token list (document plus, in
\* contextual mode, its context).
DisjointVocabulary ==
    \A i \in 1..Len(ScoredTokens) :
        Range(locals.query_terms) \cap Range(ScoredTokens[i]) = {}

\* C12 (P1): when no query term occurs in any document (nor context), the
\* lexical score map has exactly the corpus ids as keys and every score
\* is 0.
C12_ZeroOnDisjointVocabulary ==
    (pc = "done" /\ locals.fused /\ DisjointVocabulary) =>
        /\ DOMAIN locals.keyword_scores = Range(all_chunks.ids)
        /\ Cardinality(DOMAIN locals.keyword_scores) = Len(all_chunks.ids)
        /\ \A id \in DOMAIN locals.keyword_scores : locals.keyword_scores[id] = 0

\* A corpus of two or more chunks scored against a query none of whose
\* terms it contains.
C12_Witness ==
    /\ pc = "done"
    /\ locals.fused
    /\ DisjointVocabulary
    /\ locals.query_terms # <<>>
    /\ Len(all_chunks.ids) >= 2
    /\ \E i \in 1..Len(ScoredTokens) : ScoredTokens[i] # <<>>

\* ----------------------------------------------------------------- C13
\* C13 (P2): with N, the document frequencies, the total length and the
\* document length as they are in the scored corpus, the score
\* contribution of a query term at count tf + 1 is not below the one at
\* count tf, for every count a document of that length can hold; the
\* contributions of the other terms being unchanged, the document's score
\* is not lowered.
C13_Bm25MonotoneInTf ==
    (pc = "done" /\ locals.fused) =>
        \A i \in 1..Len(ScoredTokens) :
            \A term \in Range(locals.query_terms) :
                \A tf \in 0..(Len(ScoredTokens[i]) - 1) :
                    LET idf == Idf(Len(all_chunks.documents),
                                   DocFreqOf(term, ScoredTokens))
                        doc_len == Len(ScoredTokens[i])
                        total == TotalLen(ScoredTokens)
                        n_token_lists == Len(ScoredTokens)
                    IN Bm25Term(idf, tf + 1, doc_len, total, n_token_lists)
                         >= Bm25Term(idf, tf, doc_len, total, n_token_lists)

\* A scored document holds a query term of positive idf twice, and the
\* second occurrence raised the contribution.
C13_Witness ==
    /\ pc = "done"
    /\ locals.fused
    /\ \E i \in 1..Len(ScoredTokens) : \E term \in Range(locals.query_terms) :
          LET idf == Idf(Len(all_chunks.documents), DocFreqOf(term, ScoredTokens))
              doc_len == Len(ScoredTokens[i])
              total == TotalLen(ScoredTokens)
          IN /\ idf > 0
             /\ TermCount(term, ScoredTokens[i]) = 2
             /\ Bm25Term(idf, 2, doc_len, total, Len(ScoredTokens))
                  > Bm25Term(idf, 1, doc_len, total, Len(ScoredTokens))

\* ----------------------------------------------------------------- C14
\* The query has tokens and all of them are stop words.
OnlyStopWords == _tokenize(query) # <<>> /\ Range(_tokenize(query)) \subseteq stop_words

\* C14 (P7): for a query of stop words only, the query terms used for
\* scoring are the unfiltered query tokens, a non-empty list, with the
\* plain and with the contextual scorer, and the scorer raises nothing.
C14_StopWordFallback ==
    (pc = "done" /\ OnlyStopWords) =>
        /\ locals.fused =>
              /\ locals.query_terms # <<>>
              /\ locals.query_terms = _tokenize(query)
              /\ DOMAIN locals.keyword_scores = Range(all_chunks.ids)
        /\ raised_in = "retrieve" =>
              outcome.error \notin {"ZeroDivisionError", "IndexError"}
        /\ (Succeeded(get_response) /\ Succeeded(query_response)
              /\ \A i \in 1..Len(all_chunks.metadatas) : ~all_chunks.metadatas[i].isNone)
           => Returned

\* A query of stop words only was scored with the contextual scorer, and a
\* document matched one of its terms.
C14_Witness ==
    /\ pc = "done"
    /\ OnlyStopWords
    /\ locals.fused
    /\ ReadsContexts(enable_contextual, all_chunks)
    /\ \E id \in DOMAIN locals.keyword_scores : locals.keyword_scores[id] > 0

\* ----------------------------------------------------------------- C15
\* C15 (P6): cleaning a cleaned text gives the cleaned text:
\* clean_text_content(clean_text_content(t)) = clean_text_content(t).
C15_CleanIdempotent == fmt_pc = "recleaned" => cleaned_twice = cleaned_once

\* ----------------------------------------------------------------- C18
\* The first listed collection whose name starts with the project name
\* and "_", as a set: {} if there is none.
FirstOfProject ==
    LET hits == {i \in 1..Len(listed) :
                    /\ Len(listed[i]) > Len(project_name)
                    /\ \A k \in 1..Len(project_name) : listed[i][k] = project_name[k]}
    IN IF hits = {} THEN {} ELSE {listed[SetMin(hits)]}

\* C18: a construction keeps the default collection "<project>_pdf_content"
\* when it can be obtained; when it cannot, the retriever takes the first
\* listed collection whose name starts with "<project>_"; and the
\* construction fails with "No collections found for project" only when
\* the default could not be obtained and no listed collection has that
\* prefix, which it then always does.
C18_ConstructorFallback ==
    /\ (ctor_pc = "constructed" /\ default_get = "ok")
          => self_collection_name = project_name \o <<"pdf", "content">>
    /\ (ctor_pc \in {"get_fallback", "constructed"} /\ default_get = "raised")
          => FirstOfProject = {self_collection_name}
    /\ (ctor_pc = "failed" /\ ctor_error = "No collections found for project")
          => default_get = "raised" /\ FirstOfProject = {}
    /\ (ctor_pc = "failed" /\ listed # <<>> /\ FirstOfProject = {})
          => ctor_error = "No collections found for project"
    /\ ctor_pc = "failed" => default_get = "raised"

\* The default collection could not be obtained and the retriever was
\* built on a listed collection that is not the first of the list.
C18_Witness ==
    /\ ctor_pc = "constructed"
    /\ default_get = "raised"
    /\ Len(listed) >= 2
    /\ listed[1] # self_collection_name
    /\ self_collection_name # project_name \o <<"pdf", "content">>

\* ------------------------------------------------------------------ C16
\* The get_all requests among the requests of the current call.
FetchesSent == {i \in 1..Len(sent) : sent[i].operation = "get_all"}

\* C16: retrieve() is stateless with respect to the corpus.  A call starts
\* with nothing of an earlier call (no corpus, no neighbours, no scores, no
\* request sent); once past the fetch it has sent exactly one get_all
\* request, as its first request, for the retriever's collection; the ids
\* it returns are ids of the corpus this call fetched; and no step of a
\* call, nor the start of a later call on the same retriever, changes the
\* retriever's fields.
C16_RetrieveStateless ==
    /\ [](/\ (pc = "get" => /\ sent = <<>>
                             /\ all_chunks = EmptyChunks
                             /\ vector_results = EmptyQueryResult
                             /\ n_results = {}
                             /\ locals = NoLocals)
           /\ (pc \in {"query", "fuse", "done"} =>
                   /\ Cardinality(FetchesSent) = 1
                   /\ sent[1] = GetRequest(collection_name))
           /\ (Returned => \A i \in 1..Len(Results) :
                               Results[i].id \in Range(all_chunks.ids)))
    /\ [][(pc # "idle" /\ pc' # "idle") => retriever' = retriever]_vars

\* A later call on the same retriever has returned chunks of the corpus it
\* fetched.
C16_Witness ==
    /\ again
    /\ Returned
    /\ Len(Results) > 0
    /\ Succeeded(get_response)

\* ------------------------------------------------------------------ C17
\* The published requests that carry a correlation id.
PublishedFor(correlation_id) ==
    {i \in 1..Len(published) : published[i].correlation_id = correlation_id}

\* C17: a gateway timeout is surfaced without retry.  No two published
\* requests share a correlation id; a call that is waiting for its reply
\* has published exactly one request; and a call that ended with the
\* timeout error has published exactly one request, the last one published:
\* nothing was sent again for it.
C17_TimeoutNotRetried ==
    /\ \A i, j \in 1..Len(published) :
          published[i].correlation_id = published[j].correlation_id => i = j
    /\ (eng_pc = "waiting" => Cardinality(PublishedFor(corr_id)) = 1)
    /\ ((eng_pc = "ended" /\ eng_result = TimedOut) =>
          /\ Cardinality(PublishedFor(corr_id)) = 1
          /\ published[Len(published)].correlation_id = corr_id)

\* A call has ended with the timeout error, more than 30 seconds after its
\* one request.
C17_Witness ==
    /\ eng_pc = "ended"
    /\ eng_result = TimedOut
    /\ TimeoutElapsed(elapsed)
    /\ Cardinality(PublishedFor(corr_id)) = 1

\* ------------------------------------------------------------------ C19
\* C19: in every value retrieve() returns, count is the length of results;
\* retrieval_method is "rrf" exactly when use_rrf is true and "weighted"
\* otherwise; rrf_k is given (not None) exactly in RRF mode and
\* vector_weight exactly in weighted mode; and every result carries the
\* retrieval_method of the response.
C19_ResponseShape ==
    Returned =>
        LET value == outcome.value
        IN /\ value.status = "success"
           /\ value.count = Len(value.results)
           /\ value.retrieval_method = (IF use_rrf THEN "rrf" ELSE "weighted")
           /\ (value.rrf_k # {}) <=> use_rrf
           /\ (value.vector_weight # {}) <=> ~use_rrf
           /\ use_rrf => value.rrf_k = {rrf_k}
           /\ ~use_rrf => value.vector_weight = {vector_weight}
           /\ \A i \in 1..Len(value.results) :
                 value.results[i].retrieval_method = value.retrieval_method

\* A response of the weighted mode with two results.
C19_Witness ==
    /\ Returned
    /\ ~use_rrf
    /\ Len(Results) = 2
    /\ outcome.value.rrf_k = {}

\* A response of the RRF mode with results.
C19_WitnessRrf ==
    /\ Returned
    /\ use_rrf
    /\ Len(Results) > 0
    /\ outcome.value.vector_weight = {}

\* ------------------------------------------------------------------ C20
\* The query requests among the requests of the current call.
QueriesSent == {i \in 1..Len(sent) : sent[i].operation = "query"}

\* C20, as stated: the two gateway calls of one retrieve() are independent.
\* The query request a call sent is the request it would have sent whatever
\* corpus the fetch had returned.
C20_QueryIndependentOfFetch ==
    \A i \in QueriesSent :
       \A other \in Corpora :
          sent[i] = QueryRequest(collection_name, query, NResults(top_k, other))

\* C20, amended: the fetch request depends on nothing of the query call (it
\* is the first request, made of the collection name alone), but the query
\* request is made after the fetch returned and from its result: it is the
\* second request, it is sent only if the fetched value has "documents",
\* and its n_results is max(1, min(2 * top_k, number of fetched documents)).
\* A call sends at most these two requests.
C20_QueryFollowsFetch ==
    /\ Len(sent) <= 2
    /\ Cardinality(QueriesSent) <= 1
    /\ (sent # <<>> => sent[1] = GetRequest(collection_name))
    /\ \A i \in QueriesSent :
          /\ i = 2
          /\ "documents" \in all_chunks.has
          /\ sent[i] = QueryRequest(collection_name, query,
                            Max2(1, Min2(2 * top_k, Len(all_chunks.documents))))
          /\ n_results = {sent[i].n_results}

\* A query request whose n_results is the size of the fetched corpus, below
\* 2 * top_k.
C20_Witness ==
    /\ pc = "fuse"
    /\ QueriesSent = {2}
    /\ Len(all_chunks.documents) > 0
    /\ sent[2].n_results = Len(all_chunks.documents)
    /\ sent[2].n_results < 2 * top_k

\* ------------------------------------------------------------------ C21
\* C21: retrieve() requests exactly max(1, min(top_k * 2, corpus_size))
\* nearest neighbours, corpus_size being the number of documents the fetch
\* of the same call returned: 1 for an empty corpus, the corpus size up to
\* 2 * top_k, and 2 * top_k beyond.
C21_NeighbourCount ==
    \A i \in QueriesSent :
       LET corpus_size == Len(all_chunks.documents)
           requested == sent[i].n_results
       IN /\ corpus_size = 0 => requested = 1
          /\ (corpus_size > 0 /\ corpus_size <= top_k * 2) => requested = corpus_size
          /\ corpus_size > top_k * 2 => requested = top_k * 2

\* The query went out for one neighbour after the fetch returned no
\* document.
C21_Witness ==
    /\ QueriesSent # {}
    /\ Succeeded(get_response)
    /\ Len(all_chunks.documents) = 0
    /\ sent[2].n_results = 1

\* The query went out for 2 * top_k neighbours of a larger corpus.
C21_WitnessCapped ==
    /\ QueriesSent # {}
    /\ Len(all_chunks.documents) > top_k * 2
    /\ sent[2].n_results = top_k * 2

\* ------------------------------------------------------------------ C22
\* The candidates that got no result entry.
LeftOut == Candidates \ Range(ResultIds)

\* The results are in non-increasing combined_score order.
ResultsNonIncreasing ==
    \A i, j \in 1..Len(Results) :
        i < j => Results[i].combined_score >= Results[j].combined_score

\* C22, as stated: in both modes the results are in non-increasing
\* combined_score order and are the top_k highest-scoring candidates: no
\* candidate left out of the results has a combined score strictly greater
\* than a returned result.
C22_ResultsAreTopCandidates ==
    Returned =>
        /\ ResultsNonIncreasing
        /\ \A id \in LeftOut : \A i \in 1..Len(Results) :
               locals.combined_scores[id] <= Results[i].combined_score

\* C22, amended: the results are in non-increasing combined_score order,
\* each with the combined score of its candidate, and no candidate that is
\* a chunk of the fetched corpus and was left out has a combined score
\* strictly greater than a returned result; a left-out candidate that beats
\* a result is an id of the neighbour list that the fetched corpus does not
\* hold, and it took one of the top_k places.
C22_ResultsAreTopCorpusCandidates ==
    Returned =>
        /\ ResultsNonIncreasing
        /\ \A i \in 1..Len(Results) :
               /\ Results[i].id \in Candidates
               /\ Results[i].combined_score = locals.combined_scores[Results[i].id]
        /\ \A id \in LeftOut : \A i \in 1..Len(Results) :
               locals.combined_scores[id] > Results[i].combined_score =>
                   /\ id \notin Range(all_chunks.ids)
                   /\ id \in Range(locals.vector_ids)
                   /\ id \in Range(locals.top_ids)

\* Results of different scores, and a corpus chunk left out below them.
C22_Witness ==
    /\ Returned
    /\ Len(Results) = 2
    /\ Results[1].combined_score > Results[2].combined_score
    /\ \E id \in LeftOut :
          /\ id \in Range(all_chunks.ids)
          /\ locals.combined_scores[id] < Results[2].combined_score

\* A neighbour the corpus does not hold was left out above a result.
C22_WitnessLeftOutAbove ==
    /\ Returned
    /\ \E id \in LeftOut : \E i \in 1..Len(Results) :
          locals.combined_scores[id] > Results[i].combined_score

\* ------------------------------------------------------------------ C23
\* The chunks of the fetched corpus that the neighbour list does not name.
KeywordOnlyChunks == Range(all_chunks.ids) \ Range(locals.vector_ids)

\* C23: in weighted mode a chunk that is not in the vector result set is a
\* fusion candidate if and only if its raw BM25 score is strictly greater
\* than 5.0, and its combined score is then
\* (1 - vector_weight) * min(1.0, score / 10.0), without vector part.
C23_KeywordOnlyAdmission ==
    (locals.fused /\ ~use_rrf) =>
        \A id \in KeywordOnlyChunks :
           LET score == DictGet(locals.keyword_scores, id, 0)
           IN /\ id \in Candidates <=> score > 5 * Scale
              /\ id \in Candidates =>
                    locals.combined_scores[id] =
                        (100 - vector_weight)
                            * (IF score \div 10 < Scale THEN score \div 10 ELSE Scale)

\* Weighted mode: a chunk outside the neighbour list scores above 5.0 and
\* is a candidate with a positive combined score.
C23_Witness ==
    /\ Returned
    /\ ~use_rrf
    /\ \E id \in KeywordOnlyChunks :
          /\ locals.keyword_scores[id] > 5 * Scale
          /\ id \in Candidates
          /\ locals.combined_scores[id] > 0

\* Weighted mode: a chunk outside the neighbour list scores above 0 and at
\* most 5.0 and is no candidate.
C23_WitnessBelow ==
    /\ Returned
    /\ ~use_rrf
    /\ \E id \in KeywordOnlyChunks :
          /\ locals.keyword_scores[id] > 0
          /\ locals.keyword_scores[id] <= 5 * Scale
          /\ id \notin Candidates

\* ------------------------------------------------------------------ C24
\* The corpus size, the rank an id missing from a ranking is to get.
CorpusSize == Len(all_chunks.ids)

\* 1 / (rank + rrf_k), as a numerator over the common denominator of the call.
Contribution(rank) == locals.rrf_den \div (rank + rrf_k)

\* C24: in RRF mode an id missing from one of the two rankings is given the
\* rank corpus size in that ranking; that rank is strictly greater than
\* every rank assigned in the ranking the id is missing from, so the
\* contribution the id gets from that ranking is never larger than that of
\* an id present in it.
C24_FallbackRankIsWorst ==
    (locals.fused /\ use_rrf) =>
        \A id \in Candidates :
           /\ id \notin DOMAIN locals.vector_ranks =>
                 /\ locals.combined_scores[id] =
                        Contribution(CorpusSize) + Contribution(locals.keyword_ranks[id])
                 /\ \A other \in DOMAIN locals.vector_ranks :
                        /\ locals.vector_ranks[other] < CorpusSize
                        /\ Contribution(CorpusSize)
                              <= Contribution(locals.vector_ranks[other])
           /\ id \notin DOMAIN locals.keyword_ranks =>
                 /\ locals.combined_scores[id] =
                        Contribution(locals.vector_ranks[id]) + Contribution(CorpusSize)
                 /\ \A other \in DOMAIN locals.keyword_ranks :
                        /\ locals.keyword_ranks[other] < CorpusSize
                        /\ Contribution(CorpusSize)
                              <= Contribution(locals.keyword_ranks[other])

\* RRF mode: one id is missing from the vector ranking and another from the
\* lexical ranking, and both rankings have assigned ranks.
C24_Witness ==
    /\ locals.fused
    /\ use_rrf
    /\ \E id \in Candidates :
          id \notin DOMAIN locals.vector_ranks /\ DOMAIN locals.vector_ranks # {}
    /\ \E id \in Candidates :
          id \notin DOMAIN locals.keyword_ranks /\ DOMAIN locals.keyword_ranks # {}

\* RRF mode, empty fetched corpus: the id of the neighbour list is missing
\* from the empty lexical ranking and gets rank 0 in it.
C24_WitnessEmptyCorpus ==
    /\ locals.fused
    /\ use_rrf
    /\ CorpusSize = 0
    /\ \E id \in Candidates :
          /\ locals.keyword_ranks = <<>>
          /\ locals.combined_scores[id] = Contribution(0) + Contribution(0)

\* ------------------------------------------------------------------ C25
\* The token lists the scorer call of the state scored.
ScorerTokenLists == ContextualScorerTokens(sc_documents, sc_contexts, sc_contextual)

\* C25: lexical scoring never divides by zero and never fails.  For every
\* corpus, the empty one and those of documents without tokens included,
\* and every query, either scorer returns a score map, with one score for
\* every document, and every score is at least 0; the scores of a corpus
\* without tokens are 0.
C25_ScoringNeverFails ==
    sc_pc = "scored" =>
        /\ sc_outcome.kind = "return"
        /\ DOMAIN sc_outcome.value = Range(ScorerIds(sc_documents))
        /\ \A id \in DOMAIN sc_outcome.value : sc_outcome.value[id] >= 0
        /\ TotalLen(ScorerTokenLists) = 0 =>
               \A id \in DOMAIN sc_outcome.value : sc_outcome.value[id] = 0

\* The contextual scorer has scored, with a query that has terms, two
\* documents that have no token even with their contexts (average length 0).
C25_Witness ==
    /\ sc_pc = "scored"
    /\ sc_contextual
    /\ Len(sc_contexts) = 2
    /\ Len(sc_documents) = 2
    /\ TotalLen(ScorerTokenLists) = 0
    /\ QueryTerms(sc_query) # <<>>
    /\ sc_outcome.kind = "return"

\* The plain scorer has scored the empty corpus.
C25_WitnessEmptyCorpus ==
    /\ sc_pc = "scored"
    /\ ~sc_contextual
    /\ sc_documents = <<>>
    /\ QueryTerms(sc_query) # <<>>
    /\ sc_outcome.kind = "return"

\* A document has a positive score.
C25_WitnessPositive ==
    /\ sc_pc = "scored"
    /\ sc_outcome.kind = "return"
    /\ \E id \in DOMAIN sc_outcome.value : sc_outcome.value[id] > 0

\* ------------------------------------------------------------------ C26
\* C26: the results are deduplicated: no chunk id occurs more than once in
\* the results of one call, also when the id is in both rankings or is
\* repeated inside the neighbour list.
C26_ResultsDeduplicated ==
    Returned =>
        \A i, j \in 1..Len(Results) : Results[i].id = Results[j].id => i = j

\* A chunk named twice by the neighbour list, and ranked lexically as well,
\* is returned once, next to another result.
C26_Witness ==
    /\ Returned
    /\ Len(locals.vector_ids) = 2
    /\ locals.vector_ids[1] = locals.vector_ids[2]
    /\ DictGet(locals.keyword_scores, locals.vector_ids[1], 0) > 0
    /\ Len(Results) = 2
    /\ Results[1].id = locals.vector_ids[1]

\* ------------------------------------------------------------------ C27
\* C27, as stated: a delivered message is accepted only if its correlation
\* id is that of the request being waited on, so a call never returns the
\* response of another request; a late reply to an earlier request is
\* discarded and the call returns its own reply or the timeout error.
C27_ReturnsOwnReplyOrTimeout ==
    /\ response # "None" => response_for = corr_id
    /\ eng_pc = "ended" =>
          /\ ~eng_result.raised
          /\ \/ eng_result = TimedOut
             \/ /\ response_for = corr_id
                /\ eng_result = ParseResponse(response)

\* The part of C27 on the correlation alone: self.response is only ever
\* taken from a message with the correlation id of the current call, and a
\* call that ends without exception and without timeout ends with what
\* parsing that message gives.
C27_NeverAnotherReply ==
    /\ response = "None" <=> response_for = 0
    /\ response # "None" => response_for = corr_id
    /\ (eng_pc = "ended" /\ ~eng_result.raised /\ eng_result # TimedOut) =>
          /\ response_for = corr_id
          /\ eng_result = ParseResponse(response)

\* During a later call the reply to an earlier, timed-out request waits in
\* the callback queue.
C27_LateReplyWaiting ==
    /\ eng_pc = "waiting"
    /\ eng_result = TimedOut
    /\ \E i \in 1..Len(callback_queue) : callback_queue[i].correlation_id < corr_id

\* A later call has ended with its own reply after the reply to the
\* earlier request was answered and dispatched.
C27_LateReplyDiscarded ==
    /\ eng_pc = "ended"
    /\ corr_id = 2
    /\ answered = {1, 2}
    /\ callback_queue = <<>>
    /\ response_for = 2
    /\ ~eng_result.raised
    /\ eng_result.status = "success"

\* ------------------------------------------------------------------ C28
\* The values retrieve() can return on the inputs of the call of the state:
\* the same query, top_k and retriever, the same gateway values.
PossibleOutcomes ==
    {FormatResults(query, top_k, use_rrf, vector_weight, rrf_k, enable_contextual,
                   collection_name, all_chunks, locals, sorted_keys) :
        sorted_keys \in SortedKeyOrders(use_rrf, locals)}

\* C28, as stated: retrieve() is deterministic.  A call that returned has
\* returned the only value a call with the same query, top_k, retriever
\* parameters and gateway responses can return, in both fusion modes.
C28_RetrieveDeterministic ==
    Returned => PossibleOutcomes = {outcome}

\* The part of C28 that holds: in weighted mode the returned value is the
\* only possible one, and in RRF mode every possible value is built from
\* the same combined scores, in some non-increasing order of them.
C28_DeterministicButForRrfTies ==
    Returned =>
        /\ ~use_rrf => PossibleOutcomes = {outcome}
        /\ \A sorted_keys \in SortedKeyOrders(use_rrf, locals) :
              /\ Range(sorted_keys) = Candidates
              /\ NonIncreasing(sorted_keys, locals.combined_scores)

\* RRF mode, top_k = 1: two candidates of equal combined score, and the
\* call returned one of them where it could have returned the other.
C28_TieCutEitherWay ==
    /\ Returned
    /\ use_rrf
    /\ top_k = 1
    /\ Len(Results) = 1
    /\ \E other \in PossibleOutcomes :
          /\ Len(other.value.results) = 1
          /\ other.value.results[1].id # Results[1].id

C29_RejectedAddsNoTask ==
    \A r \in Requests : req_pc[r] \in {"rejected", "download_failed"} =>
        active_tasks[r] = "absent"

\* More requests than max_workers are past the capacity check and await
\* their downloads, none recorded yet.
C29_AllPastTheCheck ==
    /\ Cardinality({r \in Requests : req_pc[r] = "downloading"}) > MaxWorkers
    /\ RunningTasks(active_tasks) = {}

\* ------------------------------------------------------------------ C30
\* The terminal status updates of a run: taskFriendlyName "completed" or
\* "failed".
TerminalUpdates(w) ==
    {i \in 1..Len(wf_updates[w]) :
        wf_updates[w][i].taskFriendlyName \in {"completed", "failed"}}

\* C30: every run of process_classification sends exactly one terminal
\* status update, "completed" or "failed" (the latter with taskName
\* "task_failed"), as its last update and in agreement with the value it
\* returns; it sends no terminal update before it returns; and it reports
\* the completion to the backend, once, exactly when its terminal status
\* is "completed".
C30_OneTerminalUpdate ==
    \A w \in Runs :
       /\ wf_pc[w] # "returned" => (TerminalUpdates(w) = {} /\ wf_reports[w] = 0)
       /\ wf_pc[w] = "returned" =>
             LET last == wf_updates[w][Len(wf_updates[w])]
             IN /\ TerminalUpdates(w) = {Len(wf_updates[w])}
                /\ last.taskFriendlyName = wf_result[w]
                /\ last.taskFriendlyName = "failed" => last.taskName = "task_failed"
                /\ wf_reports[w] = (IF last.taskFriendlyName = "completed" THEN 1 ELSE 0)

\* One run completed through the full analysis after its fast bypass could
\* not save, another failed; the first reported, the second did not.
C30_Witness ==
    /\ wf_pc[1] = "returned" /\ wf_pc[2] = "returned"
    /\ wf_small[1]
    /\ wf_result[1] = "completed"
    /\ wf_updates[1][Len(wf_updates[1])].taskName = "workflow_completed"
    /\ wf_reports[1] = 1
    /\ wf_result[2] = "failed"
    /\ wf_reports[2] = 0

====
